---- MODULE Spec2Model ----
(***************************************************************************)
(* Thread formatting and length optimisation of the DroneAgent Twitter     *)
(* agent: the Length Optimizer (agent/writer.py), the Content Deduplicator *)
(* (agent/ideator.py) and the Thread Builder (utils/thread_builder.py).    *)
(*                                                                         *)
(* A Python string is a sequence of one-character strings, so that len,    *)
(* slicing, strip, split and the regular expressions of the source are     *)
(* computed character by character.                                        *)
(***************************************************************************)
EXTENDS Integers, Sequences, FiniteSets, TLC

VARIABLES
    text,            \* optimize_tweet_length: the argument of the latest call
    result,          \* optimize_tweet_length: the value it returned
    calls,           \* number of optimize_tweet_length calls made so far
    content_hashes,  \* ContentDeduplicator.content_hashes
    used_phrases,    \* ContentDeduplicator.used_phrases
    used_topics,     \* ContentDeduplicator.used_topics
    recorded,        \* the contents add_used_content has been called with
    last,            \* the latest call on the deduplicator and its outcome
    tweets,          \* add_hashtags_to_thread: the tweets it is given
    hashtags,        \* add_hashtags_to_thread: the hashtags it is given
    tagged,          \* add_hashtags_to_thread: what the call came to
    seg_content,     \* split_content: the content it is given
    seg_max_tweets,  \* split_content: the max_tweets it is given
    seg_chunks,      \* split_content: what the call came to
    formatted,       \* format_drone_content: what the call came to
    deduplicator,    \* ContentIdeator.deduplicator: its three sets
    ideas,           \* generate_ideas: the titles of the ideas it returned
    returned,        \* the titles generate_ideas has returned so far
    returned_twice,  \* the titles among them that were returned more than once
    generated,       \* number of generate_ideas calls made so far
    thread,          \* the tweets the scorer and the validator are given
    engagement,      \* analyze_engagement_potential: what the call came to
    validation,      \* validate_thread: what the call came to
    given_tweets,    \* process_ai_tweets: the raw tweets it is given
    given_count,     \* create_fallback_thread: the tweet count it is given
    given_answer,    \* generate_thread_content: the answer of the backend
    processed,       \* process_ai_tweets: what the call came to
    fallback_thread, \* create_fallback_thread: what the call came to
    ideator_thread,  \* generate_thread_content: what the call came to
    break_content,   \* _find_best_break_point: the content whose window it is given
    break_point,     \* _find_best_break_point: what the call came to
    client,          \* TwitterPoster.client is initialised
    dry_run,         \* post_thread: its dry_run argument
    thread_tweets,   \* post_thread: thread_data['tweets']
    post_index,      \* post_thread: the index of the next pass of its loop
    reply_to_id,     \* post_thread: the id the next tweet replies to
    posted_tweets,   \* post_thread: the data of the tweets it has posted
    timeline,        \* the tweets the client has created, in their order
    post_error,      \* post_thread: the failure that left the loop
    post_pc,         \* post_thread: where the call is
    post_result,     \* post_thread: the value it returned
    is_running,      \* PostScheduler.is_running
    scheduler_thread,\* PostScheduler.scheduler_thread
    jobs,            \* the jobs of the schedule module
    loop_pc          \* where each _run_scheduler thread is

optimizerVars == <<text, result, calls>>

dedupVars == <<content_hashes, used_phrases, used_topics, recorded, last>>

hashtagVars == <<tweets, hashtags, tagged>>

segmenterVars == <<seg_content, seg_max_tweets, seg_chunks, formatted>>

ideatorVars == <<deduplicator, ideas, returned, returned_twice, generated>>

reviewVars == <<thread, engagement, validation>>

numberingVars ==
    <<given_tweets, given_count, given_answer, processed, fallback_thread, ideator_thread>>

breakVars == <<break_content, break_point>>

posterVars ==
    <<client, dry_run, thread_tweets, post_index, reply_to_id, posted_tweets, timeline,
      post_error, post_pc, post_result>>

schedulerVars == <<is_running, scheduler_thread, jobs, loop_pc>>

vars ==
    <<optimizerVars, dedupVars, hashtagVars, segmenterVars, ideatorVars, reviewVars,
      numberingVars, breakVars, posterVars, schedulerVars>>

(***************************************************************************)
(* Python string primitives                                                *)
(***************************************************************************)

\* characters that neither \w nor \s matches
Punctuation ==
    {".", "#", ",", ";", "!", "?", "-", "%", "$", ":", "'", "{", "}", "(", ")", ">",
     "U+1F9F5", "U+1F447", "U+1F680", "U+1F4D6", "U+2B07", "U+FE0F", "U+1F4CA",
     "U+26A1", "U+1F4AD", "U+1F93F", "U+1F50D"}

\* characters matched by \s and removed by str.strip()
Whitespace == {" ", "\n"}

\* \w : letters, digits and the underscore
IsWord(c) == c \notin Punctuation /\ c \notin Whitespace

IsSpace(c) == c \in Whitespace

MinInt(a, b) == IF a <= b THEN a ELSE b

MaxInt(a, b) == IF a >= b THEN a ELSE b

\* the least element of a non-empty finite set of integers
Least(S) == CHOOSE x \in S : \A y \in S : x <= y

\* the elements of a sequence
Range(seq) == {seq[i] : i \in 1..Len(seq)}

\* n copies of the character c
Rep(c, n) == [i \in 1..n |-> c]

\* s[:k], k possibly negative
PySlice(s, k) ==
    IF k >= 0 THEN SubSeq(s, 1, MinInt(k, Len(s)))
              ELSE SubSeq(s, 1, MaxInt(Len(s) + k, 0))

\* s[k:], k >= 0
PyTail(s, k) == SubSeq(s, MinInt(k, Len(s)) + 1, Len(s))

RECURSIVE FirstNonSpace(_, _)
FirstNonSpace(s, i) ==
    IF i > Len(s) THEN i
    ELSE IF IsSpace(s[i]) THEN FirstNonSpace(s, i + 1) ELSE i

RECURSIVE LastNonSpace(_, _)
LastNonSpace(s, i) ==
    IF i < 1 THEN i
    ELSE IF IsSpace(s[i]) THEN LastNonSpace(s, i - 1) ELSE i

\* str.strip()
Strip(s) == SubSeq(s, FirstNonSpace(s, 1), LastNonSpace(s, Len(s)))

\* sep.join(parts)
RECURSIVE Join(_, _)
Join(parts, sep) ==
    IF parts = <<>> THEN <<>>
    ELSE IF Len(parts) = 1 THEN parts[1]
    ELSE parts[1] \o sep \o Join(Tail(parts), sep)

\* sum(len(t) for t in parts)
RECURSIVE SumLen(_)
SumLen(parts) ==
    IF parts = <<>> THEN 0 ELSE Len(parts[1]) + SumLen(Tail(parts))

\* the elements of a finite set of integers in increasing order
RECURSIVE Ascending(_)
Ascending(S) ==
    IF S = {} THEN <<>>
    ELSE LET m == Least(S) IN <<m>> \o Ascending(S \ {m})

\* the end of the run of \w characters that starts right after position i
WordRunEnd(s, i) ==
    LET stops == {j \in (i + 1)..Len(s) : ~IsWord(s[j])}
    IN  IF stops = {} THEN Len(s) ELSE Least(stops) - 1

\* start positions of the matches of #\w+ ("#" is no \w, so no two overlap)
TagStarts(s) ==
    {i \in 1..Len(s) : s[i] = "#" /\ i < Len(s) /\ IsWord(s[i + 1])}

\* re.findall(r'#\w+', s)
FindHashtags(s) ==
    LET starts == Ascending(TagStarts(s))
    IN  [k \in 1..Len(starts) |-> SubSeq(s, starts[k], WordRunEnd(s, starts[k]))]

\* re.sub(r'#\w+', '', s): what lies between the matches
RECURSIVE CutTags(_, _, _)
CutTags(s, starts, from) ==
    IF starts = <<>> THEN SubSeq(s, from, Len(s))
    ELSE SubSeq(s, from, starts[1] - 1)
         \o CutTags(s, Tail(starts), WordRunEnd(s, starts[1]) + 1)

RemoveHashtags(s) == CutTags(s, Ascending(TagStarts(s)), 1)

\* start positions of the separator ". " (two occurrences never overlap)
DotSpaceAt(s) ==
    {i \in 1..Len(s) : s[i] = "." /\ i < Len(s) /\ s[i + 1] = " "}

RECURSIVE CutAt(_, _, _)
CutAt(s, seps, from) ==
    IF seps = <<>> THEN <<SubSeq(s, from, Len(s))>>
    ELSE <<SubSeq(s, from, seps[1] - 1)>> \o CutAt(s, Tail(seps), seps[1] + 2)

\* s.split('. ')
SplitDotSpace(s) == CutAt(s, Ascending(DotSpaceAt(s)), 1)

UpperCase ==
    <<"A","B","C","D","E","F","G","H","I","J","K","L","M",
      "N","O","P","Q","R","S","T","U","V","W","X","Y","Z">>

LowerCase ==
    <<"a","b","c","d","e","f","g","h","i","j","k","l","m",
      "n","o","p","q","r","s","t","u","v","w","x","y","z">>

LowerChar(c) ==
    IF \E i \in 1..26 : UpperCase[i] = c
    THEN LowerCase[CHOOSE i \in 1..26 : UpperCase[i] = c]
    ELSE c

\* str.lower()
Lower(s) == SubSeq([i \in 1..Len(s) |-> LowerChar(s[i])], 1, Len(s))

\* the end of the run of non-whitespace characters that starts at position i
TokenEnd(s, i) ==
    LET stops == {j \in (i + 1)..Len(s) : IsSpace(s[j])}
    IN  IF stops = {} THEN Len(s) ELSE Least(stops) - 1

\* s.split(): the maximal runs of non-whitespace characters
SplitWhitespace(s) ==
    LET starts == Ascending({i \in 1..Len(s) :
                               ~IsSpace(s[i]) /\ (i = 1 \/ IsSpace(s[i - 1]))})
    IN  [k \in 1..Len(starts) |-> SubSeq(s, starts[k], TokenEnd(s, starts[k]))]

(***************************************************************************)
(* Length Optimizer: ThreadWriter.optimize_tweet_length (agent/writer.py)  *)
(***************************************************************************)

min_length == 260

max_length == 280

\* the hashtag added when the text has none
DefaultHashtag == <<"#", "D", "r", "o", "n", "e">>

fillers ==
    << <<" ","P","r","o","f","e","s","s","i","o","n","a","l"," ","a","p","p",
         "l","i","c","a","t","i","o","n","s"," ","s","h","o","w"," ","m","e",
         "a","s","u","r","a","b","l","e"," ","R","O","I",".">>,
       <<" ","T","e","c","h","n","i","c","a","l"," ","s","p","e","c","i","f",
         "i","c","a","t","i","o","n","s"," ","e","x","c","e","e","d"," ","i",
         "n","d","u","s","t","r","y"," ","s","t","a","n","d","a","r","d","s",
         ".">>,
       <<" ","I","m","p","l","e","m","e","n","t","a","t","i","o","n"," ","r",
         "e","q","u","i","r","e","s"," ","s","t","r","a","t","e","g","i","c",
         " ","p","l","a","n","n","i","n","g"," ","a","p","p","r","o","a","c",
         "h",".">> >>

\* min(hashtags, key=len): the first hashtag of least length
ShortestTag(tags) ==
    LET k == Least({i \in 1..Len(tags) :
                      \A j \in 1..Len(tags) :
                         /\ Len(tags[i]) <= Len(tags[j])
                         /\ (j < i => Len(tags[j]) > Len(tags[i]))})
    IN  tags[k]

\* the loop over hashtags[:2]: a tag is kept while the kept ones total <= 15
RECURSIVE FilterTags(_, _)
FilterTags(tags, kept) ==
    IF tags = <<>> THEN kept
    ELSE FilterTags(Tail(tags),
                    IF SumLen(kept) + Len(tags[1]) <= 15
                       THEN Append(kept, tags[1]) ELSE kept)

\* the hashtags without the fallback to the shortest one
KeptHashtags_NoShortest(found) ==
    IF FilterTags(PySlice(found, 2), <<>>) = <<>> THEN <<DefaultHashtag>>
    ELSE FilterTags(PySlice(found, 2), <<>>)

\* the hashtags the result carries
KeptHashtags(found) ==
    LET filtered == FilterTags(PySlice(found, 2), <<>>)
        limited  == IF found = <<>> THEN <<>>
                    ELSE IF filtered = <<>> THEN <<ShortestTag(found)>>
                    ELSE filtered
    IN  IF limited = <<>> THEN <<DefaultHashtag>> ELSE limited

\* " " + " ".join(hashtags)
HashtagText(kept) == <<" ">> \o Join(kept, <<" ">>)

\* the loop over sentences[1:]: sentences are taken while they fit
RECURSIVE TrimSentences(_, _, _)
TrimSentences(rest, trimmed, limit) ==
    IF rest = <<>> THEN trimmed
    ELSE IF Len(trimmed \o <<".", " ">> \o rest[1]) <= limit
         THEN TrimSentences(Tail(rest), trimmed \o <<".", " ">> \o rest[1], limit)
         ELSE trimmed

\* the branch "if len(clean_text) > available_space"
TrimToSpace(clean_text, hashtag_text, minl, maxl) ==
    LET available_space == maxl - Len(hashtag_text)
        sentences == SplitDotSpace(clean_text)
        trimmed   == TrimSentences(Tail(sentences), sentences[1], available_space - 3)
    IN  IF Len(clean_text) > available_space
        THEN IF Len(trimmed) < minl - Len(hashtag_text)
             THEN PySlice(clean_text, available_space - 3) \o <<".", ".", ".">>
             ELSE trimmed
        ELSE clean_text

\* the loop over the fillers: the first one that fits is added
RECURSIVE AddFiller(_, _, _, _)
AddFiller(clean_text, hashtag_text, pool, maxl) ==
    IF pool = <<>> THEN clean_text
    ELSE IF Len(clean_text \o pool[1]) + Len(hashtag_text) <= maxl
         THEN clean_text \o pool[1]
         ELSE AddFiller(clean_text, hashtag_text, Tail(pool), maxl)

\* the branch "if len(clean_text) + len(hashtag_text) < min_length"
PadToMin(clean_text, hashtag_text, minl, maxl) ==
    IF Len(clean_text) + Len(hashtag_text) < minl
    THEN AddFiller(clean_text, hashtag_text, fillers, maxl)
    ELSE clean_text

\* the recombination without the strip
Recombine_NoStrip(clean_text, hashtag_text) == clean_text \o hashtag_text

\* result = clean_text.strip() + hashtag_text
Recombine(clean_text, hashtag_text) == Strip(clean_text) \o hashtag_text

\* the final length check
FinalCheck(res, clean_text, hashtag_text, maxl) ==
    IF Len(res) > maxl
    THEN Strip(PySlice(clean_text, maxl - Len(hashtag_text) - 3))
         \o <<".", ".", ".">> \o hashtag_text
    ELSE res

\* the body of the text: the hashtags removed, the ends stripped
CleanText(t) == Strip(RemoveHashtags(t))

optimize_tweet_length(t, minl, maxl) ==
    LET hashtag_text == HashtagText(KeptHashtags(FindHashtags(t)))
        trimmed == TrimToSpace(CleanText(t), hashtag_text, minl, maxl)
        padded  == PadToMin(trimmed, hashtag_text, minl, maxl)
    IN  FinalCheck(Recombine(padded, hashtag_text), padded, hashtag_text, maxl)

(***************************************************************************)
(* Content Deduplicator: ContentDeduplicator (agent/ideator.py)            *)
(***************************************************************************)

\* hashlib.md5(...).hexdigest(): equal strings give equal digests, and no two
\* of the strings met here collide
MD5(s) == [md5 |-> s]

\* content.lower().strip()
Normalized(content) == Strip(Lower(content))

\* the digest add_used_content stores, taken of the raw content
AddedHash_Raw(content) == MD5(content)

\* content_hash in add_used_content
AddedHash(content) == MD5(Normalized(content))

\* content_hash in is_content_unique
QueriedHash(content) == MD5(Normalized(content))

stop_words ==
    { <<"t","h","e">>, <<"a">>, <<"a","n">>, <<"a","n","d">>, <<"o","r">>,
      <<"b","u","t">>, <<"i","n">>, <<"o","n">>, <<"a","t">>, <<"t","o">>,
      <<"f","o","r">>, <<"o","f">>, <<"w","i","t","h">>, <<"b","y">>,
      <<"i","s">>, <<"a","r","e">>, <<"w","a","s">>, <<"w","e","r","e">>,
      <<"b","e">>, <<"b","e","e","n">>, <<"b","e","i","n","g">>,
      <<"h","a","v","e">>, <<"h","a","s">>, <<"h","a","d">>, <<"d","o">>,
      <<"d","o","e","s">>, <<"d","i","d">>, <<"w","i","l","l">>,
      <<"w","o","u","l","d">>, <<"c","o","u","l","d">>,
      <<"s","h","o","u","l","d">>, <<"m","a","y">>, <<"m","i","g","h","t">>,
      <<"c","a","n">>, <<"t","h","i","s">>, <<"t","h","a","t">>,
      <<"t","h","e","s","e">>, <<"t","h","o","s","e">> }

\* re.sub(r'[^\w\s]', ' ', content.lower())
CleanContent(content) ==
    [i \in 1..Len(content) |->
        IF IsWord(LowerChar(content[i])) \/ IsSpace(content[i])
        THEN LowerChar(content[i]) ELSE " "]

\* the phrases of n words: ' '.join(words[i:i+n]) unless all are stop words
RECURSIVE NGrams(_, _, _)
NGrams(words, n, i) ==
    IF i + n - 1 > Len(words) THEN <<>>
    ELSE LET gram == SubSeq(words, i, i + n - 1)
         IN  (IF \A k \in 1..n : gram[k] \in stop_words
              THEN <<>> ELSE <<Join(gram, <<" ">>)>>)
             \o NGrams(words, n, i + 1)

_extract_key_phrases(content) ==
    LET words == SplitWhitespace(CleanContent(content))
    IN  NGrams(words, 2, 1) \o NGrams(words, 3, 1)

\* the similarity_threshold when the caller gives none: 0.8
DefaultThreshold == <<4, 5>>

Thresholds == {DefaultThreshold, <<1, 2>>, <<3, 2>>, <<0, 1>>}

ContentTypes == {"general", "topic"}

Spaced(words) == Join(words, <<" ">>)

wDrone == <<"D","r","o","n","e">>

wdrone == <<"d","r","o","n","e">>

wrace == <<"r","a","c","e">>

wRACE == <<"R","A","C","E">>

wmap == <<"m","a","p">>

wfly == <<"f","l","y">>

wthe == <<"t","h","e">>

wa == <<"a">>

DedupTexts ==
    { <<>>,
      wDrone,
      <<" ">> \o wdrone \o <<" ">>,
      Spaced(<<wDrone, wrace>>),
      Spaced(<<wdrone, wRACE>>) \o <<" ">>,
      wdrone \o <<",", " ">> \o wrace,
      Spaced(<<wdrone, wrace, wmap>>),
      Spaced(<<wmap, wfly>>),
      Spaced(<<wdrone, wrace, wmap, wfly>>),
      Spaced(<<wthe, wa>>) }

\* how many different contents are recorded in one run
MaxRecorded == 3

\* _extract_key_phrases and the content hash of the texts of the model,
\* computed once
KeyPhrasesOf == [t \in DedupTexts |-> _extract_key_phrases(t)]

KeyPhrases(content) == KeyPhrasesOf[content]

QueriedHashOf == [t \in DedupTexts |-> QueriedHash(t)]

ContentHash(content) == QueriedHashOf[content]

AddedHashOf == [t \in DedupTexts |-> AddedHash(t)]

NormalizedOf == [t \in DedupTexts |-> Normalized(t)]

\* sum(1 for phrase in content_phrases if phrase in self.used_phrases)
RECURSIVE OverlapCount(_, _)
OverlapCount(phrases, used) ==
    IF phrases = <<>> THEN 0
    ELSE (IF phrases[1] \in used THEN 1 ELSE 0) + OverlapCount(Tail(phrases), used)

\* the comparison with <= in place of <
BelowThreshold_Inclusive(overlap_count, total, threshold) ==
    overlap_count * threshold[2] <= threshold[1] * total

\* overlap_count / total < similarity_threshold, the threshold being the
\* fraction threshold[1] / threshold[2]
BelowThreshold(overlap_count, total, threshold) ==
    overlap_count * threshold[2] < threshold[1] * total

\* the value is_content_unique returns for the index (hashes, phrases)
is_content_unique(content, similarity_threshold, hashes, phrases) ==
    LET content_phrases == KeyPhrases(content)
    IN  IF ContentHash(content) \in hashes THEN FALSE
        ELSE IF content_phrases = <<>> THEN TRUE
        ELSE BelowThreshold(OverlapCount(content_phrases, phrases),
                            Len(content_phrases), similarity_threshold)

(***************************************************************************)
(* Hashtag Distributor: ThreadBuilder.add_hashtags_to_thread               *)
(* (utils/thread_builder.py)                                               *)
(***************************************************************************)

max_tweet_length == 280

hashtag_space == 25

thread_numbering_space == 10

effective_length == max_tweet_length - hashtag_space - thread_numbering_space

\* what a call comes to: the value returned, or the exception raised
Returned(value) == [raised |-> "none", value |-> value]

Raised(exception) == [raised |-> exception, value |-> <<>>]

NotCalled == [raised |-> "pending", value |-> <<>>]

\* the whole hashtag string fits on the last tweet after a blank line
FullStringFits(last_tweet, hashtag_string) ==
    Len(last_tweet \o <<"\n", "\n">> \o hashtag_string) <= max_tweet_length

\* the test of the packing loop with the two reserved characters left out
FitsWith_NoReserve(hashtags_to_place, hashtag, available_space) ==
    Len(Join(Append(hashtags_to_place, hashtag), <<" ">>)) <= available_space

\* len(' '.join(hashtags_to_place + [hashtag])) + 2 <= available_space
FitsWith(hashtags_to_place, hashtag, available_space) ==
    Len(Join(Append(hashtags_to_place, hashtag), <<" ">>)) + 2 <= available_space

\* the inner loop: hashtags are taken in order until one does not fit
RECURSIVE GreedyPack(_, _, _)
GreedyPack(rest, hashtags_to_place, available_space) ==
    IF rest = <<>> THEN hashtags_to_place
    ELSE IF FitsWith(hashtags_to_place, rest[1], available_space)
         THEN GreedyPack(Tail(rest), Append(hashtags_to_place, rest[1]), available_space)
         ELSE hashtags_to_place

\* the loop over priority_tweets (indices counted from 0, as in the source)
RECURSIVE PriorityPass(_, _, _, _)
PriorityPass(tagged_tweets, tags, hashtags_placed, priority_tweets) ==
    IF priority_tweets = <<>> \/ hashtags_placed >= Len(tags)
    THEN [tagged_tweets |-> tagged_tweets, hashtags_placed |-> hashtags_placed]
    ELSE LET tweet_idx == priority_tweets[1] + 1
             available_space == max_tweet_length - Len(tagged_tweets[tweet_idx])
             hashtags_to_place ==
                 GreedyPack(PyTail(tags, hashtags_placed), <<>>, available_space)
         IN  PriorityPass(
                 IF hashtags_to_place # <<>>
                 THEN [tagged_tweets EXCEPT ![tweet_idx] =
                          @ \o <<" ">> \o Join(hashtags_to_place, <<" ">>)]
                 ELSE tagged_tweets,
                 tags,
                 hashtags_placed + Len(hashtags_to_place),
                 Tail(priority_tweets))

\* the loop over the remaining hashtags; i counts from 0
RECURSIVE Distribute(_, _, _)
Distribute(tagged_tweets, remaining_hashtags, i) ==
    IF i >= Len(remaining_hashtags) THEN tagged_tweets
    ELSE LET tweet_idx == ((i + 1) % (Len(tagged_tweets) - 1)) + 1
             hashtag == remaining_hashtags[i + 1]
         IN  Distribute(
                 IF Len(tagged_tweets[tweet_idx] \o <<" ">> \o hashtag) <= max_tweet_length
                 THEN [tagged_tweets EXCEPT ![tweet_idx] = @ \o <<" ">> \o hashtag]
                 ELSE tagged_tweets,
                 remaining_hashtags, i + 1)

add_hashtags_to_thread(tw, tags) ==
    IF tags = <<>> THEN Returned(tw)
    ELSE IF tw = <<>> THEN Raised("IndexError")                \* tagged_tweets[-1]
    ELSE LET hashtag_string == Join(tags, <<" ">>)
             n == Len(tw)
         IN  IF FullStringFits(tw[n], hashtag_string)
             THEN Returned([tw EXCEPT ![n] = @ \o <<"\n", "\n">> \o hashtag_string])
             ELSE LET pass == PriorityPass(tw, tags, 0, <<n - 1, 0>>)
                      remaining_hashtags == PyTail(tags, pass.hashtags_placed)
                  IN  IF remaining_hashtags # <<>> /\ n = 1
                      THEN Raised("ZeroDivisionError")         \* (i + 1) % 0
                      ELSE Returned(Distribute(pass.tagged_tweets, remaining_hashtags, 0))

(***************************************************************************)
(* Thread Segmenter: ThreadBuilder.split_content and the helpers it calls  *)
(* (utils/thread_builder.py)                                               *)
(***************************************************************************)

transition_phrases ==
    << <<"B","u","t"," ","h","e","r","e","'","s"," ","w","h","e","r","e",
         " ","i","t"," ","g","e","t","s"," ","i","n","t","e","r","e","s",
         "t","i","n","g",".",".",".">>,
       <<"T","h","e"," ","r","e","a","l"," ","g","a","m","e","-","c","h",
         "a","n","g","e","r","?">>,
       <<"T","h","i","s"," ","i","s"," ","j","u","s","t"," ","t","h","e",
         " ","b","e","g","i","n","n","i","n","g",".">>,
       <<"W","a","i","t",","," ","t","h","e","r","e","'","s"," ","m","o",
         "r","e",".">>,
       <<"T","h","e"," ","p","l","o","t"," ","t","h","i","c","k","e","n",
         "s",":">>,
       <<"H","e","r","e","'","s"," ","t","h","e"," ","k","i","c","k","e",
         "r",":">>,
       <<"A","n","d"," ","t","h","e","n"," ","s","o","m","e","t","h","i",
         "n","g"," ","u","n","e","x","p","e","c","t","e","d"," ","h","a",
         "p","p","e","n","e","d",":">>,
       <<"T","h","e"," ","r","e","s","u","l","t","s"," ","s","p","e","a",
         "k"," ","f","o","r"," ","t","h","e","m","s","e","l","v","e","s",":">>,
       <<"B","u","t"," ","t","h","e"," ","s","t","o","r","y"," ","d","o",
         "e","s","n","'","t"," ","e","n","d"," ","t","h","e","r","e",":">>,
       <<"T","h","i","s"," ","c","h","a","n","g","e","s"," ","e","v","e",
         "r","y","t","h","i","n","g",":">> >>

power_words ==
    << <<"b","r","e","a","k","t","h","r","o","u","g","h">>,
       <<"r","e","v","o","l","u","t","i","o","n","a","r","y">>,
       <<"g","a","m","e","-","c","h","a","n","g","i","n","g">>,
       <<"u","n","p","r","e","c","e","d","e","n","t","e","d">>,
       <<"c","u","t","t","i","n","g","-","e","d","g","e">>,
       <<"t","r","a","n","s","f","o","r","m","a","t","i","v","e">>,
       <<"d","i","s","r","u","p","t","i","v","e">>,
       <<"i","n","n","o","v","a","t","i","v","e">>,
       <<"e","x","p","l","o","s","i","v","e">>,
       <<"d","r","a","m","a","t","i","c">>,
       <<"s","t","u","n","n","i","n","g">>,
       <<"r","e","m","a","r","k","a","b","l","e">> >>

\* \d
IsDigit(c) == c \in {"0", "1", "2", "3", "4", "5", "6", "7", "8", "9"}

\* the greatest element of a non-empty finite set of integers
Greatest(S) == CHOOSE x \in S : \A y \in S : x >= y

\* s[i:i+len(w)] == w, for a position i counted from 1
HasAt(s, i, w) ==
    i + Len(w) - 1 <= Len(s) /\ SubSeq(s, i, i + Len(w) - 1) = w

\* the positions at which w occurs in s; w in s iff there is one
Occurrences(s, w) ==
    {i \in 1..(Len(s) - Len(w) + 1) : SubSeq(s, i, i + Len(w) - 1) = w}

\* the end of the run of digits that starts at position i
DigitRunEnd(s, i) ==
    LET stops == {j \in i..Len(s) : ~IsDigit(s[j])}
    IN  IF stops = {} THEN Len(s) ELSE Least(stops) - 1

\* the end of the run of whitespace that starts at position i
WsRunEnd(s, i) ==
    LET stops == {j \in i..Len(s) : ~IsSpace(s[j])}
    IN  IF stops = {} THEN Len(s) ELSE Least(stops) - 1

\* the start of the run of whitespace that ends at position i
WsRunStart(s, i) ==
    LET stops == {j \in 1..i : ~IsSpace(s[j])}
    IN  IF stops = {} THEN 1 ELSE Greatest(stops) + 1

\* the end of the match of \d+%|\$\d+[MBK]?|\d+x|\d+ years?|\d+ months?
\* that starts at position i, 0 when there is none
StatisticEnd(s, i) ==
    IF s[i] = "$"
    THEN LET e == DigitRunEnd(s, i + 1)
         IN  IF e <= i THEN 0
             ELSE IF e < Len(s) /\ s[e + 1] \in {"M", "B", "K"} THEN e + 1
             ELSE e
    ELSE IF IsDigit(s[i])
    THEN LET e == DigitRunEnd(s, i)
         IN  IF HasAt(s, e + 1, <<"%">>) THEN e + 1
             ELSE IF HasAt(s, e + 1, <<"x">>) THEN e + 1
             ELSE IF HasAt(s, e + 1, <<" ","y","e","a","r">>)
                  THEN IF HasAt(s, e + 6, <<"s">>) THEN e + 6 ELSE e + 5
             ELSE IF HasAt(s, e + 1, <<" ","m","o","n","t","h">>)
                  THEN IF HasAt(s, e + 7, <<"s">>) THEN e + 7 ELSE e + 6
             ELSE 0
    ELSE 0

\* re.findall(..., first_part)[:1]: the first statistic, <<>> when the
\* list is empty
FirstStatistic(first_part) ==
    LET starts == {i \in 1..Len(first_part) : StatisticEnd(first_part, i) > 0}
    IN  IF starts = {} THEN <<>>
        ELSE SubSeq(first_part, Least(starts),
                    StatisticEnd(first_part, Least(starts)))

\* the positions of the characters of [.!?]
SentenceStops(s) == {i \in 1..Len(s) : s[i] \in {".", "!", "?"}}

\* re.split(r'[.!?]+', s)[0]
FirstSentence(s) ==
    IF SentenceStops(s) = {} THEN s
    ELSE SubSeq(s, 1, Least(SentenceStops(s)) - 1)

\* the two emoji of the source, one character each: U+1F9F5 (the spool of
\* thread) and U+1F447 (the hand pointing down)
Spool == "U+1F9F5"

PointDown == "U+1F447"

ThreadMarker == <<Spool>> \o <<" ","T","H","R","E","A","D",":">>

_create_hook_tweet(content) ==
    LET first_part == PySlice(content, 200)
        number == FirstStatistic(first_part)
        lowered == Lower(first_part)
        strong_words == {k \in 1..Len(power_words) :
                            Occurrences(lowered, Lower(power_words[k])) # {}}
        strong == power_words[Least(strong_words)]
        hook ==
            IF number # <<>> /\ strong_words # {}
            THEN ThreadMarker \o <<" ","T","h","e"," ">> \o strong \o <<" ">> \o number
                 \o <<" ","s","t","o","r","y"," ","t","h","a","t","'","s",
                      " ","r","e","s","h","a","p","i","n","g"," ","d","r",
                      "o","n","e"," ","o","p","s",".">>
            ELSE IF number # <<>>
            THEN ThreadMarker \o <<" ">> \o number
                 \o <<" ","-"," ","t","h","e"," ","n","u","m","b","e","r",
                      " ","t","h","a","t","'","s"," ","c","h","a","n","g",
                      "i","n","g"," ","e","v","e","r","y","t","h","i","n",
                      "g"," ","i","n"," ","d","r","o","n","e"," ","t","e",
                      "c","h",".">>
            ELSE IF strong_words # {}
            THEN ThreadMarker \o <<" ","T","h","e"," ">> \o strong
                 \o <<" ","s","h","i","f","t"," ","h","a","p","p","e","n",
                      "i","n","g"," ","i","n"," ","d","r","o","n","e"," ",
                      "o","p","e","r","a","t","i","o","n","s"," ","r","i",
                      "g","h","t"," ","n","o","w",".">>
            ELSE ThreadMarker \o <<" ">>
                 \o PySlice(Strip(FirstSentence(content)), 150)
                 \o <<".", ".", ".">>
    IN  IF Len(hook) > effective_length - 5
        THEN PySlice(hook, effective_length - 8) \o <<".", ".", ".", " ", PointDown>>
        ELSE IF hook[Len(hook)] # PointDown THEN hook \o <<" ", PointDown>>
        ELSE hook

\* m.end() of the matches of [.!?]\s+
sentence_ends(s) ==
    {WsRunEnd(s, i + 1) :
        i \in {j \in 1..(Len(s) - 1) :
                 s[j] \in {".", "!", "?"} /\ IsSpace(s[j + 1])}}

\* m.start() of the matches of \n\s*\n: a match starts at the first newline
\* of a run of whitespace that holds a second one and ends at the last
para_breaks(s) ==
    {i - 1 :
        i \in {j \in 1..Len(s) :
                 /\ s[j] = "\n"
                 /\ \A k \in WsRunStart(s, j)..(j - 1) : s[k] # "\n"
                 /\ \E k \in (j + 1)..WsRunEnd(s, j) : s[k] = "\n"}}

conjunctions ==
    << <<"b","u","t">>,
       <<"h","o","w","e","v","e","r">>,
       <<"m","e","a","n","w","h","i","l","e">>,
       <<"a","l","s","o">>,
       <<"a","d","d","i","t","i","o","n","a","l","l","y">> >>

\* the end of the match of [,;]\s+(?:but|however|meanwhile|also|additionally)
\* that starts at position i, 0 when there is none; lowered is s.lower()
ClauseEnd(s, lowered, i) ==
    IF s[i] \in {",", ";"} /\ i < Len(s) /\ IsSpace(s[i + 1])
    THEN LET e == WsRunEnd(s, i + 1)
             found == {k \in 1..Len(conjunctions) :
                         HasAt(lowered, e + 1, conjunctions[k])}
         IN  IF found = {} THEN 0 ELSE e + Len(conjunctions[Least(found)])
    ELSE 0

\* m.end() of the matches of the clause pattern
clause_breaks(s) ==
    LET lowered == Lower(s)
    IN  {ClauseEnd(s, lowered, i) :
            i \in {j \in 1..Len(s) : ClauseEnd(s, lowered, j) > 0}}

\* the positions of the target range
InTargetRange(breaks) ==
    {pos \in breaks : effective_length - 50 <= pos /\ pos <= effective_length}

\* the break point with a sentence end ranked above a paragraph break
_find_best_break_point_SentenceFirst(content) ==
    IF InTargetRange(sentence_ends(content)) # {}
    THEN Greatest(InTargetRange(sentence_ends(content)))
    ELSE IF InTargetRange(para_breaks(content)) # {}
    THEN Greatest(InTargetRange(para_breaks(content)))
    ELSE IF InTargetRange(clause_breaks(content)) # {}
    THEN Greatest(InTargetRange(clause_breaks(content)))
    ELSE LET fitting == {pos \in sentence_ends(content) : pos <= effective_length}
         IN  IF fitting # {} THEN Least(fitting) ELSE 0

\* all_breaks sorted by falling priority (4 paragraph, 3 sentence, 2 clause)
\* and, within a priority, by falling position: the first one in the target
\* range; else the first sentence end, in text order, that is at most
\* effective_length; else 0
_find_best_break_point(content) ==
    IF InTargetRange(para_breaks(content)) # {}
    THEN Greatest(InTargetRange(para_breaks(content)))
    ELSE IF InTargetRange(sentence_ends(content)) # {}
    THEN Greatest(InTargetRange(sentence_ends(content)))
    ELSE IF InTargetRange(clause_breaks(content)) # {}
    THEN Greatest(InTargetRange(clause_breaks(content)))
    ELSE LET fitting == {pos \in sentence_ends(content) : pos <= effective_length}
         IN  IF fitting # {} THEN Least(fitting) ELSE 0

\* the transition put in front without the test of the length
_add_transition_element_Unchecked(chunk, tweet_index) ==
    IF tweet_index < 3 /\ Len(transition_phrases) > tweet_index - 1
    THEN transition_phrases[MinInt(tweet_index - 1,
                                   Len(transition_phrases) - 1) + 1]
         \o <<" ">> \o chunk
    ELSE chunk

_add_transition_element(chunk, tweet_index) ==
    IF tweet_index < 3 /\ Len(transition_phrases) > tweet_index - 1
    THEN LET transition ==
                 transition_phrases[MinInt(tweet_index - 1,
                                           Len(transition_phrases) - 1) + 1]
         IN  IF Len(chunk \o <<" ">> \o transition) <= effective_length
             THEN transition \o <<" ">> \o chunk
             ELSE chunk
    ELSE chunk

\* while words and len(' '.join(words)) > effective_length: words.pop()
RECURSIVE PopWhileLong(_)
PopWhileLong(words) ==
    IF words # <<>> /\ Len(Join(words, <<" ">>)) > effective_length
    THEN PopWhileLong(SubSeq(words, 1, Len(words) - 1))
    ELSE words

_fallback_word_split(content) ==
    Join(PopWhileLong(SplitWhitespace(PySlice(content, effective_length))), <<" ">>)

_get_next_chunk_enhanced(content, tweet_index) ==
    IF Len(content) <= effective_length THEN Strip(content)
    ELSE IF tweet_index = 0 THEN _create_hook_tweet(content)
    ELSE LET best_break ==
                 _find_best_break_point(PySlice(content, effective_length + 100))
             chunk == Strip(PySlice(content, best_break))
         IN  IF best_break > 0
             THEN IF tweet_index > 0 /\ Len(chunk) < effective_length - 30
                  THEN _add_transition_element(chunk, tweet_index)
                  ELSE chunk
             ELSE _fallback_word_split(content)

\* re.sub(r'^<U+1F9F5> THREAD:\s*', '', s)
DropThreadMarker(s) ==
    IF HasAt(s, 1, ThreadMarker)
    THEN SubSeq(s, WsRunEnd(s, Len(ThreadMarker) + 1) + 1, Len(s))
    ELSE s

\* re.sub(r'<U+1F447>$', '', s), s having no newline at its end
DropPointer(s) ==
    IF s # <<>> /\ s[Len(s)] = PointDown THEN SubSeq(s, 1, Len(s) - 1) ELSE s

\* re.sub(r'^(<the transition phrases>)\s*', '', s, flags=re.IGNORECASE)
DropTransition(s) ==
    LET lowered == Lower(s)
        found == {k \in 1..Len(transition_phrases) :
                    HasAt(lowered, 1, Lower(transition_phrases[k]))}
    IN  IF found = {} THEN s
        ELSE SubSeq(s, WsRunEnd(s, Len(transition_phrases[Least(found)]) + 1) + 1,
                    Len(s))

_remove_processed_content(content, processed_chunk) ==
    LET clean_chunk ==
            DropTransition(Strip(DropPointer(DropThreadMarker(Strip(processed_chunk)))))
        found == Occurrences(content, clean_chunk)
        remaining ==
            IF found # {}
            THEN SubSeq(content, 1, Least(found) - 1)
                 \o SubSeq(content, Least(found) + Len(clean_chunk), Len(content))
            ELSE PyTail(content, Len(clean_chunk))
    IN  Strip(remaining)

conclusion_patterns ==
    << << <<"i","n"," ","c","o","n","c","l","u","s","i","o","n">>,
          <<"f","i","n","a","l","l","y">>,
          <<"t","h","e"," ","r","e","s","u","l","t">>,
          <<"o","u","t","c","o","m","e">>,
          <<"i","m","p","a","c","t">> >>,
       << <<"t","h","i","s"," ","m","e","a","n","s">>,
          <<"t","h","e","r","e","f","o","r","e">>,
          <<"c","o","n","s","e","q","u","e","n","t","l","y">> >>,
       << <<"r","e","a","d","y"," ","t","o">>,
          <<"t","i","m","e"," ","t","o">>,
          <<"s","t","a","r","t">>,
          <<"b","e","g","i","n">> >> >>

\* the end of the match of (k1|k2|...).*?[.!?] that starts at position i, 0
\* when there is none: the first of [.!?] after the keyword found at i
ConclusionEnd(s, lowered, keywords, i) ==
    LET found == {k \in 1..Len(keywords) :
                    /\ HasAt(lowered, i, keywords[k])
                    /\ \E t \in SentenceStops(s) : t >= i + Len(keywords[k])}
    IN  IF found = {} THEN 0
        ELSE Least({t \in SentenceStops(s) : t >= i + Len(keywords[Least(found)])})

\* re.search(pattern, s, re.IGNORECASE | re.DOTALL).group(0), <<>> when
\* there is no match
ConclusionMatch(s, keywords) ==
    LET lowered == Lower(s)
        starts == {i \in 1..Len(s) : ConclusionEnd(s, lowered, keywords, i) > 0}
    IN  IF starts = {} THEN <<>>
        ELSE SubSeq(s, Least(starts),
                    ConclusionEnd(s, lowered, keywords, Least(starts)))

\* the loop over conclusion_patterns from the k-th on, then the first
\* sentence of what remains
RECURSIVE ClosingFrom(_, _)
ClosingFrom(remaining_content, k) ==
    IF k > Len(conclusion_patterns)
    THEN PySlice(Strip(FirstSentence(remaining_content)), effective_length)
    ELSE LET conclusion == ConclusionMatch(remaining_content, conclusion_patterns[k])
         IN  IF conclusion # <<>> /\ Len(conclusion) <= effective_length
             THEN Strip(conclusion)
             ELSE ClosingFrom(remaining_content, k + 1)

_create_closing_tweet(remaining_content) ==
    IF Len(remaining_content) <= effective_length THEN Strip(remaining_content)
    ELSE ClosingFrom(remaining_content, 1)

\* what follows the while loop: the closing tweet made of a remainder of
\* more than 50 characters is appended if it is not empty and the list is
\* still shorter than max_tweets
AddClosing(collected, remaining_content, final_chunk, limit) ==
    IF /\ remaining_content # <<>>
       /\ Len(Strip(remaining_content)) > 50
       /\ final_chunk # <<>>
       /\ Len(collected) < limit
    THEN Append(collected, final_chunk)
    ELSE collected

\* the while loop of split_content from the state (collected,
\* remaining_content, tweet_count) on, chunk being the next chunk of
\* remaining_content: the chunks collected and what remains
RECURSIVE SplitLoop(_, _, _, _, _)
SplitLoop(collected, remaining_content, tweet_count, limit, chunk) ==
    IF remaining_content # <<>> /\ tweet_count < limit /\ chunk # <<>>
    THEN LET remaining == _remove_processed_content(remaining_content, chunk)
         IN  SplitLoop(Append(collected, chunk), remaining, tweet_count + 1, limit,
                       _get_next_chunk_enhanced(remaining, tweet_count + 1))
    ELSE [collected |-> collected, remaining_content |-> remaining_content]

\* the while loop run on a content longer than effective_length
LoopOf(content, limit) ==
    SplitLoop(<<>>, content, 0, limit, _get_next_chunk_enhanced(content, 0))

\* the closing step applied to what the loop left
CloseThread(loop, limit) ==
    AddClosing(loop.collected, loop.remaining_content,
               _create_closing_tweet(loop.remaining_content), limit)

split_content(content, limit) ==
    IF Len(content) <= effective_length THEN <<content>>
    ELSE CloseThread(LoopOf(content, limit), limit)

(***************************************************************************)
(* Engagement Scorer: ThreadBuilder.analyze_engagement_potential           *)
(* (utils/thread_builder.py). A factor is modelled by its name and its     *)
(* points, a ratio of two integers by its numerator and its denominator.   *)
(***************************************************************************)

Rocket == "U+1F680"

\* ord(c) of the characters beyond ASCII; an ASCII character is below 128
CodePoint(c) ==
    IF c = Spool THEN 129525
    ELSE IF c = PointDown THEN 128071
    ELSE IF c = Rocket THEN 128640
    ELSE IF c = "U+1F4D6" THEN 128214
    ELSE IF c = "U+2B07" THEN 11015
    ELSE IF c = "U+FE0F" THEN 65039
    ELSE IF c = "U+1F4CA" THEN 128202
    ELSE IF c = "U+26A1" THEN 9889
    ELSE IF c = "U+1F4AD" THEN 128173
    ELSE IF c = "U+1F93F" THEN 129343
    ELSE IF c = "U+1F50D" THEN 128269
    ELSE 127

\* [\U0001F600-\U0001F64F\U0001F300-\U0001F5FF\U0001F680-\U0001F6FF\U0001F1E0-\U0001F1FF]
EmojiRanges ==
    << <<128512, 128591>>, <<127744, 128511>>, <<128640, 128767>>, <<127462, 127487>> >>

IsEmoji(c) ==
    \E k \in 1..Len(EmojiRanges) :
        EmojiRanges[k][1] <= CodePoint(c) /\ CodePoint(c) <= EmojiRanges[k][2]

\* len(re.findall(<the emoji class>, s))
EmojiCount(s) == Cardinality({i \in 1..Len(s) : IsEmoji(s[i])})

\* s.count(c) for a single character c
CountOf(s, c) == Cardinality({i \in 1..Len(s) : s[i] = c})

\* w in s
Contains(s, w) ==
    w = <<>> \/ \E i \in 1..(Len(s) - Len(w) + 1) : s[i] = w[1] /\ HasAt(s, i, w)

\* any(w in s for w in words)
ContainsAny(s, words) == \E k \in 1..Len(words) : Contains(s, words[k])

\* the end of the match of \d+%|\$\d+|\d+x|\d+ years? that starts at
\* position i, 0 when there is none
NumberEnd(s, i) ==
    IF s[i] = "$"
    THEN LET e == DigitRunEnd(s, i + 1)
         IN  IF e <= i THEN 0 ELSE e
    ELSE IF IsDigit(s[i])
    THEN LET e == DigitRunEnd(s, i)
         IN  IF HasAt(s, e + 1, <<"%">>) THEN e + 1
             ELSE IF HasAt(s, e + 1, <<"x">>) THEN e + 1
             ELSE IF HasAt(s, e + 1, <<" ","y","e","a","r">>)
                  THEN IF HasAt(s, e + 6, <<"s">>) THEN e + 6 ELSE e + 5
             ELSE 0
    ELSE 0

\* len(re.findall(r'\d+%|\$\d+|\d+x|\d+ years?', s[from - 1:])): the matches
\* are taken from left to right and do not overlap
RECURSIVE CountNumbers(_, _)
CountNumbers(s, from) ==
    LET starts == {i \in from..Len(s) : NumberEnd(s, i) > 0}
    IN  IF starts = {} THEN 0
        ELSE 1 + CountNumbers(s, NumberEnd(s, Least(starts)) + 1)

max_score == 60

hooks ==
    << <<"t","h","r","e","a","d",":">>,
       <<"b","r","e","a","k","i","n","g",":">>,
       <<"s","h","o","c","k","i","n","g",":">>,
       <<"n","o","b","o","d","y"," ","t","e","l","l","s"," ","y","o","u">> >>

cta_phrases ==
    << <<"r","e","t","w","e","e","t">>,
       <<"s","h","a","r","e">>,
       <<"c","o","m","m","e","n","t">>,
       <<"t","h","o","u","g","h","t","s">>,
       <<"a","g","r","e","e">>,
       <<"d","i","s","a","g","r","e","e">>,
       <<"e","x","p","e","r","i","e","n","c","e">>,
       <<"d","r","o","p">>,
       <<"w","h","a","t"," ","d","o"," ","y","o","u"," ","t","h","i","n","k">> >>

personal_indicators ==
    << <<"i">>,
       <<"m","y">>,
       <<"a","f","t","e","r"," ","y","e","a","r","s">>,
       <<"i","n"," ","m","y"," ","e","x","p","e","r","i","e","n","c","e">>,
       <<"i"," ","l","e","a","r","n","e","d">>,
       <<"i"," ","d","i","s","c","o","v","e","r","e","d">> >>

strong_words ==
    << <<"w","r","o","n","g">>,
       <<"m","y","t","h">>,
       <<"m","i","s","t","a","k","e">>,
       <<"s","h","o","c","k","i","n","g">>,
       <<"s","u","r","p","r","i","s","i","n","g">>,
       <<"n","o","b","o","d","y"," ","t","e","l","l","s"," ","y","o","u">> >>

Factor(name, points) == <<[factor |-> name, points |-> points]>>

\* sum(1 for phrase in cta_phrases if phrase in total_text)
CtaCount(total_text) ==
    Cardinality({k \in 1..Len(cta_phrases) : Contains(total_text, cta_phrases[k])})

EmojiFactor(emoji_count) ==
    IF emoji_count > 0 THEN Factor("Emojis", MinInt(emoji_count, 8) * 2) ELSE <<>>

QuestionFactor(question_count) ==
    IF question_count > 0 THEN Factor("Questions", MinInt(question_count * 4, 16))
    ELSE <<>>

HookFactor(first_tweet) ==
    IF ContainsAny(first_tweet, hooks) THEN Factor("Strong hook", 8) ELSE <<>>

CtaFactor(cta_count) ==
    IF cta_count > 0 THEN Factor("CTAs", cta_count * 3) ELSE <<>>

\* the thread length with the test 3 <= len(tweets) <= 8 off by one at its
\* upper end
LengthFactor_UpTo9(tweet_count) ==
    IF 3 <= tweet_count /\ tweet_count <= 9 THEN Factor("Optimal thread length", 6)
    ELSE IF tweet_count > 9 THEN Factor("Long thread", 2)
    ELSE <<>>

LengthFactor(tweet_count) ==
    IF 3 <= tweet_count /\ tweet_count <= 8 THEN Factor("Optimal thread length", 6)
    ELSE IF tweet_count > 8 THEN Factor("Long thread", 2)
    ELSE <<>>

HashtagFactor(hashtag_count) ==
    IF 1 <= hashtag_count /\ hashtag_count <= 5
    THEN Factor("Hashtags", hashtag_count * 2)
    ELSE IF hashtag_count > 5 THEN Factor("Hashtags (many)", 5)
    ELSE <<>>

PersonalFactor(total_text) ==
    IF ContainsAny(total_text, personal_indicators) THEN Factor("Personal touch", 4)
    ELSE <<>>

DataFactor(numbers) ==
    IF numbers > 0 THEN Factor("Data points", MinInt(numbers * 2, 8)) ELSE <<>>

OpinionFactor(total_text) ==
    IF ContainsAny(total_text, strong_words) THEN Factor("Strong opinions", 5)
    ELSE <<>>

\* the factors in the order the source appends them
FactorsOf(tw, total_text) ==
    EmojiFactor(EmojiCount(total_text))
    \o QuestionFactor(CountOf(total_text, "?"))
    \o HookFactor(Lower(tw[1]))
    \o CtaFactor(CtaCount(total_text))
    \o LengthFactor(Len(tw))
    \o HashtagFactor(CountOf(total_text, "#"))
    \o PersonalFactor(total_text)
    \o DataFactor(CountNumbers(total_text, 1))
    \o OpinionFactor(total_text)

\* engagement_score: every branch adds to it the points of the factor it
\* appends
RECURSIVE SumPoints(_)
SumPoints(factors) ==
    IF factors = <<>> THEN 0 ELSE factors[1].points + SumPoints(Tail(factors))

\* min((engagement_score / 60) * 100, 100) as a ratio
Percentage(engagement_score) ==
    [numerator |-> MinInt(engagement_score * 100, 100 * 60), denominator |-> 60]

When(condition, recommendation) == IF condition THEN <<recommendation>> ELSE <<>>

Recommendations(tw, total_text, current_score, emoji_count) ==
    When(current_score < 20, "U+1F6A8 LOW ENGAGEMENT RISK - Consider major revisions")
    \o When(~Contains(total_text, <<"?">>), "Add questions to encourage replies")
    \o When(~ContainsAny(total_text,
                         << <<"s","h","a","r","e">>, <<"r","e","t","w","e",
                                                       "e","t">>, <<
                                                                                                                                                "t",
                                                                                                                                                "h",
                                                                                                                                                "o",
                                                                                                                                                "u",
                                                                                                                                                "g",
                                                                                                                                                "h",
                                                                                                                                                "t",
                                                                                                                                                "s">>, <<
                                                                                                                                                                                                                                                                                                                                                                                                                                                                                                                                                                                                                                                                                                                                                                                                                                                                                                                                                                                                                                                                                                                                                                                                                                                                                                                                                                                             "d",
                                                                                                                                                                                                                                                                                                                                                                                                                                                                                                                                                                                                                                                                                                                                                                                                                                                                                                                                                                                                                                                                                                                                                                                                                                                                                                                                                                                             "r",
                                                                                                                                                                                                                                                                                                                                                                                                                                                                                                                                                                                                                                                                                                                                                                                                                                                                                                                                                                                                                                                                                                                                                                                                                                                                                                                                                                                             "o",
                                                                                                                                                                                                                                                                                                                                                                                                                                                                                                                                                                                                                                                                                                                                                                                                                                                                                                                                                                                                                                                                                                                                                                                                                                                                                                                                                                                             "p">>, <<
                                                                                                                                                                                                                                                                                                                                                                                                                                                                                                                                                                                                                                                                                                                                                                                                                                                                                                                                                                                                                                                                                                                                                                                                                                                                                                                                                                                                                                                                                                                                                                                                                                                                                                                                                                                                                                                                                                                                                                                                                                                                                                                                                                                                                                                                                                                                                                                                                                                                                                                                                                                                                                                                                                                                                                                                                                                                                                                                                                                                                                                                                                                                                                                                                                                                                                                                                                                                                                                                                                                                                                                                                                                                                                                                                                                                                                                                                                                                                                                                                                                                                                                                                                                                                                                                                                                                                                                                                                                                                                                                                                                                                                                                                                                                                                                                                                                                                                                                                                                                                                                                                                                                                                                                                                                                                                                                                                                                                                                                                                                                                                                                                                                                                                                                                                                                                                                                                                                                                                                                                                                                                                                                                                                                                                                                                                                                                                                                                                                                                                                                                                                                                                                                                                                                                                                                                                                                                                                                                                                                          "c",
                                                                                                                                                                                                                                                                                                                                                                                                                                                                                                                                                                                                                                                                                                                                                                                                                                                                                                                                                                                                                                                                                                                                                                                                                                                                                                                                                                                                                                                                                                                                                                                                                                                                                                                                                                                                                                                                                                                                                                                                                                                                                                                                                                                                                                                                                                                                                                                                                                                                                                                                                                                                                                                                                                                                                                                                                                                                                                                                                                                                                                                                                                                                                                                                                                                                                                                                                                                                                                                                                                                                                                                                                                                                                                                                                                                                                                                                                                                                                                                                                                                                                                                                                                                                                                                                                                                                                                                                                                                                                                                                                                                                                                                                                                                                                                                                                                                                                                                                                                                                                                                                                                                                                                                                                                                                                                                                                                                                                                                                                                                                                                                                                                                                                                                                                                                                                                                                                                                                                                                                                                                                                                                                                                                                                                                                                                                                                                                                                                                                                                                                                                                                                                                                                                                                                                                                                                                                                                                                                                                                          "o",
                                                                                                                                                                                                                                                                                                                                                                                                                                                                                                                                                                                                                                                                                                                                                                                                                                                                                                                                                                                                                                                                                                                                                                                                                                                                                                                                                                                                                                                                                                                                                                                                                                                                                                                                                                                                                                                                                                                                                                                                                                                                                                                                                                                                                                                                                                                                                                                                                                                                                                                                                                                                                                                                                                                                                                                                                                                                                                                                                                                                                                                                                                                                                                                                                                                                                                                                                                                                                                                                                                                                                                                                                                                                                                                                                                                                                                                                                                                                                                                                                                                                                                                                                                                                                                                                                                                                                                                                                                                                                                                                                                                                                                                                                                                                                                                                                                                                                                                                                                                                                                                                                                                                                                                                                                                                                                                                                                                                                                                                                                                                                                                                                                                                                                                                                                                                                                                                                                                                                                                                                                                                                                                                                                                                                                                                                                                                                                                                                                                                                                                                                                                                                                                                                                                                                                                                                                                                                                                                                                                                          "m",
                                                                                                                                                                                                                                                                                                                                                                                                                                                                                                                                                                                                                                                                                                                                                                                                                                                                                                                                                                                                                                                                                                                                                                                                                                                                                                                                                                                                                                                                                                                                                                                                                                                                                                                                                                                                                                                                                                                                                                                                                                                                                                                                                                                                                                                                                                                                                                                                                                                                                                                                                                                                                                                                                                                                                                                                                                                                                                                                                                                                                                                                                                                                                                                                                                                                                                                                                                                                                                                                                                                                                                                                                                                                                                                                                                                                                                                                                                                                                                                                                                                                                                                                                                                                                                                                                                                                                                                                                                                                                                                                                                                                                                                                                                                                                                                                                                                                                                                                                                                                                                                                                                                                                                                                                                                                                                                                                                                                                                                                                                                                                                                                                                                                                                                                                                                                                                                                                                                                                                                                                                                                                                                                                                                                                                                                                                                                                                                                                                                                                                                                                                                                                                                                                                                                                                                                                                                                                                                                                                                                          "m",
                                                                                                                                                                                                                                                                                                                                                                                                                                                                                                                                                                                                                                                                                                                                                                                                                                                                                                                                                                                                                                                                                                                                                                                                                                                                                                                                                                                                                                                                                                                                                                                                                                                                                                                                                                                                                                                                                                                                                                                                                                                                                                                                                                                                                                                                                                                                                                                                                                                                                                                                                                                                                                                                                                                                                                                                                                                                                                                                                                                                                                                                                                                                                                                                                                                                                                                                                                                                                                                                                                                                                                                                                                                                                                                                                                                                                                                                                                                                                                                                                                                                                                                                                                                                                                                                                                                                                                                                                                                                                                                                                                                                                                                                                                                                                                                                                                                                                                                                                                                                                                                                                                                                                                                                                                                                                                                                                                                                                                                                                                                                                                                                                                                                                                                                                                                                                                                                                                                                                                                                                                                                                                                                                                                                                                                                                                                                                                                                                                                                                                                                                                                                                                                                                                                                                                                                                                                                                                                                                                                                          "e",
                                                                                                                                                                                                                                                                                                                                                                                                                                                                                                                                                                                                                                                                                                                                                                                                                                                                                                                                                                                                                                                                                                                                                                                                                                                                                                                                                                                                                                                                                                                                                                                                                                                                                                                                                                                                                                                                                                                                                                                                                                                                                                                                                                                                                                                                                                                                                                                                                                                                                                                                                                                                                                                                                                                                                                                                                                                                                                                                                                                                                                                                                                                                                                                                                                                                                                                                                                                                                                                                                                                                                                                                                                                                                                                                                                                                                                                                                                                                                                                                                                                                                                                                                                                                                                                                                                                                                                                                                                                                                                                                                                                                                                                                                                                                                                                                                                                                                                                                                                                                                                                                                                                                                                                                                                                                                                                                                                                                                                                                                                                                                                                                                                                                                                                                                                                                                                                                                                                                                                                                                                                                                                                                                                                                                                                                                                                                                                                                                                                                                                                                                                                                                                                                                                                                                                                                                                                                                                                                                                                                          "n",
                                                                                                                                                                                                                                                                                                                                                                                                                                                                                                                                                                                                                                                                                                                                                                                                                                                                                                                                                                                                                                                                                                                                                                                                                                                                                                                                                                                                                                                                                                                                                                                                                                                                                                                                                                                                                                                                                                                                                                                                                                                                                                                                                                                                                                                                                                                                                                                                                                                                                                                                                                                                                                                                                                                                                                                                                                                                                                                                                                                                                                                                                                                                                                                                                                                                                                                                                                                                                                                                                                                                                                                                                                                                                                                                                                                                                                                                                                                                                                                                                                                                                                                                                                                                                                                                                                                                                                                                                                                                                                                                                                                                                                                                                                                                                                                                                                                                                                                                                                                                                                                                                                                                                                                                                                                                                                                                                                                                                                                                                                                                                                                                                                                                                                                                                                                                                                                                                                                                                                                                                                                                                                                                                                                                                                                                                                                                                                                                                                                                                                                                                                                                                                                                                                                                                                                                                                                                                                                                                                                                          "t">> >>),
            "Include call-to-action phrases")
    \o When(~Contains(total_text, <<"#">>), "Add relevant hashtags")
    \o When(emoji_count < 3, "Add more emojis for visual appeal")
    \o When(emoji_count > 10,
            "Consider reducing emojis to avoid spam appearance")
    \o When(Len(tw) < 3, "Expand into longer thread for more engagement")
    \o When(Len(tw) > 10, "Consider condensing - very long threads lose engagement")
    \o When(~ContainsAny(total_text,
                         << <<"i">>, <<"m","y">>, <<"a","f","t","e","r">>, <<
                                                                             "e",
                                                                             "x",
                                                                             "p",
                                                                             "e",
                                                                             "r",
                                                                             "i",
                                                                             "e",
                                                                             "n",
                                                                             "c",
                                                                             "e">> >>),
            "Add personal experiences/stories for authenticity")
    \o When(CountNumbers(total_text, 1) = 0,
            "Include specific numbers/data for credibility")
    \o When(current_score >= 40, "U+2705 High engagement potential - good to go!")

_get_engagement_recommendations(tw, current_score) ==
    Recommendations(tw, Lower(Join(tw, <<" ">>)), current_score,
                    EmojiCount(Lower(Join(tw, <<" ">>))))

EngagementReport(tw, factors, engagement_score) ==
    [score |-> engagement_score,
     max_score |-> max_score,
     percentage |-> Percentage(engagement_score),
     factors |-> factors,
     recommendations |-> _get_engagement_recommendations(tw, engagement_score)]

\* the report for a thread of at least one tweet
ScoreThread(tw, factors) == EngagementReport(tw, factors, SumPoints(factors))

analyze_engagement_potential(tw) ==
    IF tw = <<>> THEN Raised("IndexError")                     \* tweets[0]
    ELSE Returned(ScoreThread(tw, FactorsOf(tw, Lower(Join(tw, <<" ">>)))))

(***************************************************************************)
(* Validator: ThreadBuilder.validate_thread and _calculate_similarity      *)
(* (utils/thread_builder.py). A finding is modelled by the number of the   *)
(* tweet, the kind of the message and the number the message quotes.       *)
(***************************************************************************)

MIN_LENGTH == 240

TARGET_MIN == 250

TARGET_MAX == 275

drone_keywords ==
    << <<"d","r","o","n","e">>,
       <<"a","e","r","i","a","l">>,
       <<"u","a","v">>,
       <<"q","u","a","d","c","o","p","t","e","r">>,
       <<"f","l","i","g","h","t">>,
       <<"c","a","m","e","r","a">>,
       <<"a","u","t","o","n","o","m","o","u","s">> >>

\* set(text.lower().split())
WordSet(tweet_text) == Range(SplitWhitespace(Lower(tweet_text)))

\* intersection / union, 0.0 when one of the word sets is empty
Jaccard(words1, words2) ==
    IF words1 = {} \/ words2 = {}
    THEN [numerator |-> 0, denominator |-> 1]
    ELSE [numerator |-> Cardinality(words1 \cap words2),
          denominator |-> Cardinality(words1 \cup words2)]

_calculate_similarity(text1, text2) == Jaccard(WordSet(text1), WordSet(text2))

\* the test similarity_score > 0.7 with the bound 0.7 itself let through
VerySimilar_Inclusive(similarity_score) ==
    10 * similarity_score.numerator >= 7 * similarity_score.denominator

\* similarity_score > 0.7; the quotient of two small integers is rounded to
\* the double nearest to it, and 0.7 is the double nearest to 7/10
VerySimilar(similarity_score) ==
    10 * similarity_score.numerator > 7 * similarity_score.denominator

Finding(i, message, value) == <<[tweet |-> i, message |-> message, value |-> value]>>

\* the errors on the length with the hard minimum itself refused
LengthIssues_MinRefused(i, tweet_length) ==
    IF tweet_length > max_tweet_length
    THEN Finding(i, "exceeds character limit", tweet_length)
    ELSE IF tweet_length <= MIN_LENGTH THEN Finding(i, "is too short", tweet_length)
    ELSE <<>>

\* the errors of the if/elif chain on the length of tweet i
LengthIssues(i, tweet_length) ==
    IF tweet_length > max_tweet_length
    THEN Finding(i, "exceeds character limit", tweet_length)
    ELSE IF tweet_length < MIN_LENGTH THEN Finding(i, "is too short", tweet_length)
    ELSE <<>>

\* the warnings of the if/elif chain on the length of tweet i
LengthWarnings(i, tweet_length) ==
    IF tweet_length > max_tweet_length \/ tweet_length < MIN_LENGTH THEN <<>>
    ELSE IF tweet_length < TARGET_MIN THEN Finding(i, "below target", tweet_length)
    ELSE IF tweet_length > TARGET_MAX THEN Finding(i, "above target", tweet_length)
    ELSE <<>>

\* the errors of the quality checks on tweet i
QualityIssues(i, tweet) ==
    (IF Strip(tweet) # tweet THEN Finding(i, "has leading/trailing whitespace", 0)
     ELSE <<>>)
    \o (IF Contains(tweet, <<" ", " ">>) THEN Finding(i, "has double spaces", 0)
        ELSE <<>>)

\* the repetition check: tweet i against tweets[i-2], the tweet before it
RepetitionWarnings(tw, i) ==
    IF i > 1 /\ VerySimilar(_calculate_similarity(tw[i], tw[i - 1]))
    THEN Finding(i, "is very similar to tweet", i - 1)
    ELSE <<>>

KeywordWarnings(i, tweet) ==
    IF ~ContainsAny(Lower(tweet), drone_keywords)
    THEN Finding(i, "lacks drone-specific terminology", 0)
    ELSE <<>>

\* the issues the loop appends for the tweets from the i-th on
RECURSIVE IssuesFrom(_, _)
IssuesFrom(tw, i) ==
    IF i > Len(tw) THEN <<>>
    ELSE LengthIssues(i, Len(tw[i])) \o QualityIssues(i, tw[i]) \o IssuesFrom(tw, i + 1)

\* the warnings the loop appends for the tweets from the i-th on
RECURSIVE WarningsFrom(_, _)
WarningsFrom(tw, i) ==
    IF i > Len(tw) THEN <<>>
    ELSE LengthWarnings(i, Len(tw[i])) \o RepetitionWarnings(tw, i)
         \o KeywordWarnings(i, tw[i]) \o WarningsFrom(tw, i + 1)

\* sum(1 for t in tweets if <test on len(t)>)
CountLengths(tw, lo, hi) ==
    Cardinality({i \in 1..Len(tw) : lo <= Len(tw[i]) /\ Len(tw[i]) <= hi})

ValidationReport(tw, issues, engagement_score) ==
    [valid |-> Len(issues) = 0,
     issues |-> issues,
     warnings |->
         WarningsFrom(tw, 1)
         \o (IF engagement_score < 15
             THEN Finding(0, "Low engagement potential", engagement_score)
             ELSE <<>>),
     tweet_count |-> Len(tw),
     total_characters |-> SumLen(tw),
     average_length |-> [numerator |-> SumLen(tw), denominator |-> Len(tw)],
     tweets_in_range |-> CountLengths(tw, TARGET_MIN, TARGET_MAX),
     tweets_below_min |-> CountLengths(tw, 0, MIN_LENGTH - 1),
     engagement_score |-> engagement_score]

\* analyze_engagement_potential(tweets)['score'] raises for the empty thread,
\* before the report is built
ValidateWith(tw, analysis) ==
    IF analysis.raised # "none" THEN Raised(analysis.raised)
    ELSE Returned(ValidationReport(tw, IssuesFrom(tw, 1), analysis.value.score))

validate_thread(tw) == ValidateWith(tw, analyze_engagement_potential(tw))

(***************************************************************************)
(* Thread Formatter: ThreadBuilder.format_drone_content with the default   *)
(* content_type "general", and the helpers it calls                        *)
(* (utils/thread_builder.py)                                               *)
(***************************************************************************)

Book == "U+1F4D6"

DownArrow == "U+2B07"

VariationSelector == "U+FE0F"

BarChart == "U+1F4CA"

HighVoltage == "U+26A1"

ThoughtBalloon == "U+1F4AD"

DivingMask == "U+1F93F"

Magnifier == "U+1F50D"

repetitive_patterns ==
    << <<"K","e","y"," ","b","e","n","e","f","i","t","s"," ","i","n","c",
         "l","u","d","e"," ","e","n","h","a","n","c","e","d"," ","p","r",
         "e","c","i","s","i","o","n"," ","a","n","d"," ","r","e","l","i",
         "a","b","i","l","i","t","y">>,
       <<"T","h","i","s"," ","t","e","c","h","n","o","l","o","g","y"," ",
         "o","f","f","e","r","s"," ","i","m","p","r","o","v","e","d"," ",
         "p","e","r","f","o","r","m","a","n","c","e">>,
       <<"T","h","e"," ","s","y","s","t","e","m"," ","p","r","o","v","i",
         "d","e","s"," ","b","e","t","t","e","r"," ","r","e","s","u","l",
         "t","s">>,
       <<"A","d","v","a","n","c","e","d"," ","f","e","a","t","u","r","e",
         "s"," ","e","n","s","u","r","e"," ","o","p","t","i","m","a","l",
         " ","o","p","e","r","a","t","i","o","n">> >>

\* the end of the match of \b<phrase>\.? (re.IGNORECASE) that starts at
\* position i
PhraseEnd(s, phrase, i) ==
    IF HasAt(s, i + Len(phrase), <<".">>) THEN i + Len(phrase) ELSE i + Len(phrase) - 1

\* the start of the first match of \b<phrase>\.? from position from on, 0
\* when there is none
NextPhrase(s, lowered, phrase, from) ==
    LET starts == {i \in from..Len(s) :
                      /\ HasAt(lowered, i, phrase)
                      /\ (i = 1 \/ ~IsWord(s[i - 1]))}
    IN  IF starts = {} THEN 0 ELSE Least(starts)

\* re.sub(r'\b<phrase>\.?', '', s[from - 1:], flags=re.IGNORECASE), next
\* being the start of the first match from position from on; phrase is in
\* lower case
RECURSIVE CutPhrase(_, _, _, _, _)
CutPhrase(s, lowered, phrase, from, next) ==
    IF next = 0 THEN SubSeq(s, from, Len(s))
    ELSE SubSeq(s, from, next - 1)
         \o CutPhrase(s, lowered, phrase, PhraseEnd(s, phrase, next) + 1,
                      NextPhrase(s, lowered, phrase, PhraseEnd(s, phrase, next) + 1))

\* one pass of the loop over repetitive_patterns
CutPattern(s, lowered, phrase) ==
    CutPhrase(s, lowered, phrase, 1, NextPhrase(s, lowered, phrase, 1))

\* the loop over repetitive_patterns from the k-th on
RECURSIVE CutPhrases(_, _)
CutPhrases(s, k) ==
    IF k > Len(repetitive_patterns) THEN s
    ELSE CutPhrases(CutPattern(s, Lower(s), Lower(repetitive_patterns[k])), k + 1)

\* the position of the first whitespace from position from on, 0 when there
\* is none
NextSpace(s, from) ==
    LET spaces == {i \in from..Len(s) : IsSpace(s[i])}
    IN  IF spaces = {} THEN 0 ELSE Least(spaces)

\* re.sub(r'\s+', ' ', s[from - 1:]), next being the position of the first
\* whitespace from position from on
RECURSIVE CollapseWhitespace(_, _, _)
CollapseWhitespace(s, from, next) ==
    IF next = 0 THEN SubSeq(s, from, Len(s))
    ELSE SubSeq(s, from, next - 1) \o <<" ">>
         \o CollapseWhitespace(s, WsRunEnd(s, next) + 1,
                               NextSpace(s, WsRunEnd(s, next) + 1))

\* the position of the first character after the whitespace that starts at
\* position i
SkipWhitespace(s, i) == IF i <= Len(s) /\ IsSpace(s[i]) THEN WsRunEnd(s, i) + 1 ELSE i

\* the end of the match of \s*\.\s*\. that starts at position i, 0 when there
\* is none
DotPairEnd(s, i) ==
    IF /\ HasAt(s, SkipWhitespace(s, i), <<".">>)
       /\ HasAt(s, SkipWhitespace(s, SkipWhitespace(s, i) + 1), <<".">>)
    THEN SkipWhitespace(s, SkipWhitespace(s, i) + 1)
    ELSE 0

\* the start of the first match of \s*\.\s*\. from position from on, 0 when
\* there is none
NextDotPair(s, from) ==
    LET starts == {i \in from..Len(s) : DotPairEnd(s, i) > 0}
    IN  IF starts = {} THEN 0 ELSE Least(starts)

\* re.sub(r'\s*\.\s*\.', '.', s[from - 1:]), next being the start of the
\* first match from position from on
RECURSIVE MergeDots(_, _, _)
MergeDots(s, from, next) ==
    IF next = 0 THEN SubSeq(s, from, Len(s))
    ELSE SubSeq(s, from, next - 1) \o <<".">>
         \o MergeDots(s, DotPairEnd(s, next) + 1,
                      NextDotPair(s, DotPairEnd(s, next) + 1))

\* content = re.sub(r'\s+', ' ', content)
Collapsed(s) == CollapseWhitespace(s, 1, NextSpace(s, 1))

\* content = re.sub(r'\s*\.\s*\.', '.', content); return content.strip()
CleanUp(s) == Strip(MergeDots(s, 1, NextDotPair(s, 1)))

_remove_repetitive_phrases(content) == CleanUp(Collapsed(CutPhrases(content, 1)))

\* tweet[:max_tweet_length - 3] + "..." for a tweet above the limit
add_thread_numbers(tw) ==
    [i \in 1..Len(tw) |->
        IF Len(tw[i]) > max_tweet_length
        THEN PySlice(tw[i], max_tweet_length - 3) \o <<".", ".", ".">>
        ELSE tw[i]]

hook_indicators ==
    << <<Spool>>,
       <<Book>>,
       <<"T","H","R","E","A","D",":">> >>

continuation_elements ==
    << <<PointDown>>,
       <<DownArrow, VariationSelector>>,
       <<"(","c","o","n","t","i","n","u","e","d",")">>,
       <<">", ">">> >>

\* the first tweet gets the spool unless it has a hook indicator or is long
EnhanceFirst(tweet) ==
    IF ~ContainsAny(tweet, hook_indicators) /\ Len(tweet) < max_tweet_length - 10
    THEN <<Spool, " ">> \o tweet
    ELSE tweet

data_words ==
    << <<"d","a","t","a">>,
       <<"a","n","a","l","y","s","i","s">>,
       <<"s","t","u","d","y">>,
       <<"r","e","s","e","a","r","c","h">> >>

news_words ==
    << <<"b","r","e","a","k","t","h","r","o","u","g","h">>,
       <<"i","n","n","o","v","a","t","i","o","n">>,
       <<"n","e","w">> >>

\* the continuation element a tweet other than the last one gets
Continue(tweet) ==
    IF Len(tweet) < max_tweet_length - 5 /\ ~ContainsAny(tweet, continuation_elements)
    THEN IF ContainsAny(Lower(tweet), data_words)
         THEN tweet \o <<" ", BarChart>>
         ELSE IF ContainsAny(Lower(tweet), news_words)
         THEN tweet \o <<" ", HighVoltage>>
         ELSE tweet \o <<" ", PointDown>>
    ELSE tweet

cta_indicators ==
    << <<"r","e","a","d","y">>,
       <<"j","o","i","n">>,
       <<"s","t","a","r","t">>,
       <<"g","e","t">>,
       <<"d","o","w","n","l","o","a","d">>,
       <<"f","o","l","l","o","w">>,
       <<"d","r","o","p">>,
       <<"?">> >>

\* the call to action chosen by the theme of the thread
ClosingCta(joined) ==
    IF \/ Contains(Lower(joined), <<"t","e","c","h","n","i","c","a","l">>)
       \/ Contains(Lower(joined), <<"s","p","e","c">>)
    THEN <<"\n","\n","R","e","a","d","y"," ","t","o"," ","d","i","v","e",
           " ","d","e","e","p","e","r","?"," ",DivingMask," ","W","h","a",
           "t","'","s"," ","y","o","u","r"," ","b","i","g","g","e","s","t",
           " ","t","e","c","h","n","i","c","a","l"," ","c","h","a","l","l",
           "e","n","g","e","?">>
    ELSE IF \/ Contains(Lower(joined), <<"b","u","s","i","n","e","s","s">>)
            \/ Contains(joined, <<"R","O","I">>)
    THEN <<"\n","\n","T","h","o","u","g","h","t","s"," ","o","n"," ","i",
           "m","p","l","e","m","e","n","t","a","t","i","o","n","?"," ",
           ThoughtBalloon," ","S","h","a","r","e"," ","y","o","u","r"," ",
           "e","x","p","e","r","i","e","n","c","e"," ","b","e","l","o","w",
           "!">>
    ELSE IF \/ Contains(Lower(joined), <<"f","u","t","u","r","e">>)
            \/ Contains(Lower(joined), <<"t","r","e","n","d">>)
    THEN <<"\n","\n","W","h","a","t"," ","t","r","e","n","d","s"," ","a",
           "r","e"," ","y","o","u"," ","w","a","t","c","h","i","n","g","?",
           " ",Magnifier," ","D","r","o","p"," ","y","o","u","r"," ","p",
           "r","e","d","i","c","t","i","o","n","s","!">>
    ELSE <<"\n","\n","W","h","a","t","'","s"," ","y","o","u","r"," ","t",
           "a","k","e","?"," ",ThoughtBalloon," ","S","h","a","r","e"," ",
           "y","o","u","r"," ","t","h","o","u","g","h","t","s","!">>

\* the last tweet with the call to action cta, when it has none and cta fits
WithCta(last_tweet, cta) ==
    IF /\ ~ContainsAny(Lower(last_tweet), cta_indicators)
       /\ Len(last_tweet) < max_tweet_length - 50
       /\ Len(last_tweet \o cta) <= max_tweet_length
    THEN last_tweet \o cta
    ELSE last_tweet

_enhance_final_tweet(tw) ==
    [tw EXCEPT ![Len(tw)] = WithCta(tw[Len(tw)], ClosingCta(Join(tw, <<" ">>)))]

\* the first tweet enhanced, then every tweet but the last continued
Flowing(tw) ==
    [i \in 1..Len(tw) |->
        IF i = 1 /\ i < Len(tw) THEN Continue(EnhanceFirst(tw[i]))
        ELSE IF i = 1 THEN EnhanceFirst(tw[i])
        ELSE IF i < Len(tw) THEN Continue(tw[i])
        ELSE tw[i]]

optimize_thread_flow(tw) ==
    IF tw = <<>> THEN tw
    ELSE IF Len(tw) > 1 THEN _enhance_final_tweet(Flowing(tw))
    ELSE Flowing(tw)

\* def split_content(self, content: str, max_tweets: int = 10)
default_max_tweets == 10

\* format_drone_content(content): content_type is "general", for which no
\* type-specific formatting is applied
format_drone_content(content) ==
    optimize_thread_flow(
        add_thread_numbers(
            split_content(_remove_repetitive_phrases(content), default_max_tweets)))

(***************************************************************************)
(* Idea generation: ContentIdeator.generate_ideas (agent/ideator.py). An   *)
(* idea is modelled by its title.                                          *)
(***************************************************************************)

\* ContentConfig.max_title_length
max_title_length == 100

\* s.replace(old, new), old not empty
RECURSIVE Replace(_, _, _)
Replace(s, old, new) ==
    IF Occurrences(s, old) = {} THEN s
    ELSE LET i == Least(Occurrences(s, old))
         IN  SubSeq(s, 1, i - 1) \o new
             \o Replace(SubSeq(s, i + Len(old), Len(s)), old, new)

\* the titles of fallback_templates, each with its lists of values in the
\* order of the dictionary
fallback_templates ==
    << [title |-> <<"A","d","v","a","n","c","e","d"," ","D","r","o","n","e",
                    " ","M","a","p","p","i","n","g"," ","T","e","c","h","n",
                    "i","q","u","e","s"," ","f","o","r"," ","{","i","n","d",
                    "u","s","t","r","y","}">>,
        lists |-> << [key |-> <<"i","n","d","u","s","t","r","i","e","s">>,
                      values |-> << <<"C","o","n","s","t","r","u","c","t",
                                      "i","o","n">>,
                                    <<"A","g","r","i","c","u","l","t","u",
                                      "r","e">>,
                                    <<"M","i","n","i","n","g">>,
                                    <<"I","n","f","r","a","s","t","r","u",
                                      "c","t","u","r","e">> >>],
                     [key |-> <<"a","p","p","l","i","c","a","t","i","o","n",
                                "s">>,
                      values |-> << <<"s","u","r","v","e","y","i","n","g">>,
                                    <<"m","o","n","i","t","o","r","i","n",
                                      "g">>,
                                    <<"i","n","s","p","e","c","t","i","o",
                                      "n">>,
                                    <<"a","n","a","l","y","s","i","s">> >>] >>],
       [title |-> <<"R","O","I"," ","A","n","a","l","y","s","i","s",":"," ",
                    "C","o","m","m","e","r","c","i","a","l"," ","D","r","o",
                    "n","e"," ","D","e","p","l","o","y","m","e","n","t"," ",
                    "i","n"," ","{","s","e","c","t","o","r","}">>,
        lists |-> << [key |-> <<"s","e","c","t","o","r","s">>,
                      values |-> << <<"R","e","a","l"," ","E","s","t","a",
                                      "t","e">>,
                                    <<"I","n","s","u","r","a","n","c","e">>,
                                    <<"S","e","c","u","r","i","t","y">>,
                                    <<"L","o","g","i","s","t","i","c","s">> >>],
                     [key |-> <<"u","s","e","_","c","a","s","e","s">>,
                      values |-> << <<"p","r","o","p","e","r","t","y"," ",
                                      "a","s","s","e","s","s","m","e","n",
                                      "t">>,
                                    <<"c","l","a","i","m","s"," ","p","r",
                                      "o","c","e","s","s","i","n","g">>,
                                    <<"p","e","r","i","m","e","t","e","r",
                                      " ","m","o","n","i","t","o","r","i",
                                      "n","g">>,
                                    <<"i","n","v","e","n","t","o","r","y",
                                      " ","m","a","n","a","g","e","m","e",
                                      "n","t">> >>] >>],
       [title |-> <<"R","e","g","u","l","a","t","o","r","y"," ","U","p","d",
                    "a","t","e",":"," ","{","r","e","g","u","l","a","t","i",
                    "o","n","}"," ","I","m","p","a","c","t"," ","o","n"," ",
                    "D","r","o","n","e"," ","O","p","e","r","a","t","i","o",
                    "n","s">>,
        lists |-> << [key |-> <<"r","e","g","u","l","a","t","i","o","n","s">>,
                      values |-> << <<"P","a","r","t"," ","1","0","7">>,
                                    <<"R","e","m","o","t","e"," ","I","D">>,
                                    <<"B","V","L","O","S">>,
                                    <<"U","r","b","a","n"," ","A","i","r",
                                      " ","M","o","b","i","l","i","t","y">> >>] >>],
       [title |-> <<"T","e","c","h","n","i","c","a","l"," ","D","e","e","p",
                    "-","d","i","v","e",":"," ","{","t","e","c","h","n","o",
                    "l","o","g","y","}"," ","i","n"," ","M","o","d","e","r",
                    "n"," ","D","r","o","n","e","s">>,
        lists |-> << [key |-> <<"t","e","c","h","n","o","l","o","g","i","e",
                                "s">>,
                      values |-> << <<"A","I","-","p","o","w","e","r","e",
                                      "d"," ","o","b","s","t","a","c","l",
                                      "e"," ","a","v","o","i","d","a","n",
                                      "c","e">>,
                                    <<"S","w","a","r","m"," ","i","n","t",
                                      "e","l","l","i","g","e","n","c","e">>,
                                    <<"E","d","g","e"," ","c","o","m","p",
                                      "u","t","i","n","g">>,
                                    <<"A","d","v","a","n","c","e","d"," ",
                                      "s","e","n","s","o","r"," ","f","u",
                                      "s","i","o","n">> >>] >>] >>

\* the titles the loop over the lists of a template can come to from the
\* k-th list on: the placeholder is the key without its last character, in
\* braces; where the title holds it, a value chosen at random replaces it
RECURSIVE FilledTitles(_, _, _)
FilledTitles(title, lists, k) ==
    IF k > Len(lists) THEN {title}
    ELSE LET placeholder == <<"{">> \o PySlice(lists[k].key, -1) \o <<"}">>
         IN  IF Occurrences(title, placeholder) # {}
             THEN UNION {FilledTitles(Replace(title, placeholder, lists[k].values[v]),
                                      lists, k + 1) :
                            v \in 1..Len(lists[k].values)}
             ELSE FilledTitles(title, lists, k + 1)

\* the titles one round of the loop of _generate_fallback_ideas can make
FallbackTitles ==
    UNION {FilledTitles(fallback_templates[t].title, fallback_templates[t].lists, 1) :
              t \in 1..Len(fallback_templates)}

\* the loop of _parse_ideas_response over the titles of the response: a
\* title, cut to max_title_length, is accepted if is_content_unique says so
\* and is then recorded as a topic; d is the deduplicator
RECURSIVE ParseIdeas(_, _, _)
ParseIdeas(response, d, valid_ideas) ==
    IF response = <<>> THEN [valid_ideas |-> valid_ideas, deduplicator |-> d]
    ELSE LET title == PySlice(response[1], max_title_length)
         IN  IF is_content_unique(title, DefaultThreshold,
                                  d.content_hashes, d.used_phrases)
             THEN ParseIdeas(
                      Tail(response),
                      [content_hashes |-> d.content_hashes \cup {AddedHashOf[title]},
                       used_phrases |-> d.used_phrases \cup Range(KeyPhrases(title)),
                       used_topics |-> d.used_topics \cup {NormalizedOf[title]}],
                      Append(valid_ideas, title))
             ELSE ParseIdeas(Tail(response), d, valid_ideas)

\* the titles of a list that were returned before or stand twice in it
Repeated(titles, before) ==
    {titles[i] : i \in {j \in 1..Len(titles) :
                           \/ titles[j] \in before
                           \/ \E k \in 1..Len(titles) : k # j /\ titles[k] = titles[j]}}

(***************************************************************************)
(* Tweet numbering: ThreadWriter.process_ai_tweets and                     *)
(* create_fallback_thread (agent/writer.py), and the thread path of        *)
(* ContentIdeator.generate_thread_content: _parse_thread_response followed *)
(* by _improve_thread_quality (agent/ideator.py). A raw tweet is either a  *)
(* dictionary, given by its keys and their values, or something else.      *)
(***************************************************************************)

\* isinstance(tweet, dict) and 'text' in tweet
HasText(tweet) == tweet.is_dict /\ "text" \in tweet.keys

\* the tweet made of the raw tweet at index i of enumerate(raw_tweets)
ProcessedTweet(tweet, i) ==
    [text |-> optimize_tweet_length(tweet.text, min_length, max_length),
     type |-> IF "type" \in tweet.keys THEN tweet.type ELSE "content",
     needs_image |-> IF "needs_image" \in tweet.keys THEN tweet.needs_image ELSE i = 0,
     tweet_number |-> i + 1]

\* the loop over enumerate(raw_tweets) from index i on
RECURSIVE ProcessLoop(_, _)
ProcessLoop(raw, i) ==
    IF i >= Len(raw) THEN <<>>
    ELSE (IF HasText(raw[i + 1]) THEN <<ProcessedTweet(raw[i + 1], i)>> ELSE <<>>)
         \o ProcessLoop(raw, i + 1)

\* the opening words of the text of the mandatory Gumroad post
gumroad_text ==
    <<"R","e","a","d","y"," ","t","o"," ","j","o","i","n"," ","t","h","e",
      " ","c","o","c","k","p","i","t","?">>

\* the Gumroad post appended to the tweets made so far
WithGumroadPost(made) ==
    Append(made, [text |-> gumroad_text,
                  type |-> "gumroad",
                  needs_image |-> TRUE,
                  tweet_number |-> Len(made) + 1])

process_ai_tweets(raw_tweets) == WithGumroadPost(ProcessLoop(raw_tweets, 0))

\* len(content_insights)
InsightCount == 7

\* the tweet of the loop over range(1, tweet_count) at i; its text is given
\* by the place of its template in content_insights, InsightCount + 1 for the
\* additional insight
InsightTweet(i) ==
    [text |-> IF i - 1 < InsightCount THEN <<"content_insights", i>>
              ELSE <<"content_insights", InsightCount + 1>>,
     type |-> "content",
     needs_image |-> TRUE,
     tweet_number |-> i + 1]

\* the intro tweet, its text given by the name of its template
IntroTweet ==
    [text |-> <<"intro", 0>>,
     type |-> "intro",
     needs_image |-> TRUE,
     tweet_number |-> 1]

\* create_fallback_thread(topic, tweet_count): the intro tweet, the tweets
\* of range(1, tweet_count) and the Gumroad post
create_fallback_thread(tweet_count) ==
    WithGumroadPost(<<IntroTweet>> \o [i \in 1..(tweet_count - 1) |-> InsightTweet(i)])

Digits == <<"0","1","2","3","4","5","6","7","8","9">>

\* str(n), n >= 0
RECURSIVE Str(_)
Str(n) == IF n < 10 THEN <<Digits[n + 1]>> ELSE Str(n \div 10) \o <<Digits[(n % 10) + 1]>>

\* s.startswith(w)
StartsWith(s, w) == HasAt(s, 1, w)

\* s.endswith(w)
EndsWith(s, w) == Len(s) >= Len(w) /\ HasAt(s, Len(s) - Len(w) + 1, w)

\* s.split('\n'), seps being the positions of the newlines from from on
RECURSIVE CutLines(_, _, _)
CutLines(s, seps, from) ==
    IF seps = <<>> THEN <<SubSeq(s, from, Len(s))>>
    ELSE <<SubSeq(s, from, seps[1] - 1)>> \o CutLines(s, Tail(seps), seps[1] + 1)

SplitLines(s) == CutLines(s, Ascending({i \in 1..Len(s) : s[i] = "\n"}), 1)

image_keywords ==
    << <<"t","e","c","h","n","i","q","u","e">>,
       <<"t","i","p">>,
       <<"e","x","a","m","p","l","e">>,
       <<"s","h","o","w">>,
       <<"l","o","o","k">>,
       <<"s","e","e">>,
       <<"v","i","s","u","a","l">>,
       <<"p","h","o","t","o">>,
       <<"s","h","o","t">> >>

_should_include_image(content, tweet_number) ==
    \/ tweet_number = 1
    \/ tweet_number % 3 = 0
    \/ ContainsAny(Lower(content), image_keywords)

\* the dictionary _parse_thread_response appends for current_tweet
ParsedTweet(current_tweet, tweet_number) ==
    [number |-> tweet_number,
     content |-> Strip(current_tweet),
     character_count |-> Len(Strip(current_tweet)),
     needs_image |-> _should_include_image(current_tweet, tweet_number)]

\* line.startswith(('Tweet ', 'tweet ', f'{tweet_number + 1}:',
\*                  f'Tweet {tweet_number + 1}:'))
IsMarker(line, tweet_number) ==
    \/ StartsWith(line, <<"T","w","e","e","t"," ">>)
    \/ StartsWith(line, <<"t","w","e","e","t"," ">>)
    \/ StartsWith(line, Str(tweet_number + 1) \o <<":">>)
    \/ StartsWith(line, <<"T","w","e","e","t"," ">> \o Str(tweet_number + 1) \o <<":">>)

\* line[line.find(':') + 1:].strip(), the empty string when there is no colon
AfterMarker(line) ==
    IF \E i \in 1..Len(line) : line[i] = ":"
    THEN Strip(PyTail(line, Least({i \in 1..Len(line) : line[i] = ":"})))
    ELSE <<>>

\* tweets with current_tweet saved, if there is one
Saved(parsed, current_tweet, tweet_number) ==
    IF current_tweet # <<>> /\ tweet_number > 0
    THEN Append(parsed, ParsedTweet(current_tweet, tweet_number))
    ELSE parsed

\* the loop over lines from the k-th on, line being lines[k].strip(), and
\* the saving of the last tweet after it
RECURSIVE ParseLines(_, _, _, _, _)
ParseLine(lines, k, line, parsed, current_tweet, tweet_number) ==
    IF IsMarker(line, tweet_number)
    THEN ParseLines(lines, k + 1, Saved(parsed, current_tweet, tweet_number),
                    AfterMarker(line), tweet_number + 1)
    ELSE IF line # <<>> /\ ~StartsWith(line, <<"#">>) /\ tweet_number > 0
    THEN ParseLines(lines, k + 1, parsed,
                    IF current_tweet # <<>> THEN current_tweet \o <<" ">> \o line
                    ELSE line,
                    tweet_number)
    ELSE ParseLines(lines, k + 1, parsed, current_tweet, tweet_number)

ParseLines(lines, k, parsed, current_tweet, tweet_number) ==
    IF k > Len(lines) THEN Saved(parsed, current_tweet, tweet_number)
    ELSE ParseLine(lines, k, Strip(lines[k]), parsed, current_tweet, tweet_number)

\* the dictionary _fallback_parse appends for current_tweet
FallbackTweet(current_tweet, tweet_number) ==
    [number |-> tweet_number,
     content |-> Strip(current_tweet)
                 \o (IF EndsWith(current_tweet, <<".">>) THEN <<>> ELSE <<".">>),
     character_count |-> Len(Strip(current_tweet)),
     needs_image |-> tweet_number % 3 = 1]

\* the sentences fit in one tweet up to this length
fallback_tweet_length == 250

\* the loop of _fallback_parse over sentences from the k-th on, sentence
\* being sentences[k].strip() and test_tweet current_tweet with it, and the
\* saving of the last tweet after it
RECURSIVE FallbackLines(_, _, _, _, _)
FallbackLine(sentences, k, sentence, test_tweet, parsed, current_tweet, tweet_number) ==
    IF sentence = <<>>
    THEN FallbackLines(sentences, k + 1, parsed, current_tweet, tweet_number)
    ELSE IF Len(test_tweet) <= fallback_tweet_length
    THEN FallbackLines(sentences, k + 1, parsed, test_tweet, tweet_number)
    ELSE IF current_tweet # <<>>
    THEN FallbackLines(sentences, k + 1,
                       Append(parsed, FallbackTweet(current_tweet, tweet_number)),
                       sentence, tweet_number + 1)
    ELSE FallbackLines(sentences, k + 1, parsed, current_tweet, tweet_number)

FallbackLines(sentences, k, parsed, current_tweet, tweet_number) ==
    IF k > Len(sentences)
    THEN IF current_tweet # <<>>
         THEN Append(parsed, FallbackTweet(current_tweet, tweet_number))
         ELSE parsed
    ELSE FallbackLine(sentences, k, Strip(sentences[k]),
                      current_tweet \o (IF current_tweet # <<>> THEN <<" ">> ELSE <<>>)
                          \o Strip(sentences[k]),
                      parsed, current_tweet, tweet_number)

\* tweets[:10]
fallback_limit == 10

_fallback_parse(content) ==
    PySlice(FallbackLines(SplitDotSpace([i \in 1..Len(content) |->
                                            IF content[i] = "\n" THEN " " ELSE content[i]]),
                          1, <<>>, <<>>, 1),
            fallback_limit)

\* thread_data: of its keys, tweets and total_tweets
ThreadData(parsed) == [tweets |-> parsed, total_tweets |-> Len(parsed)]

\* if len(tweets) == 0: tweets = self._fallback_parse(raw_content)
OrFallback(parsed, raw_content) ==
    IF Len(parsed) = 0 THEN _fallback_parse(raw_content) ELSE parsed

_parse_thread_response(raw_content) ==
    ThreadData(OrFallback(ParseLines(SplitLines(Strip(raw_content)), 1, <<>>, <<>>, 0),
                          raw_content))

repetitive_phrases ==
    << <<"I","n","c","l","u","d","e","s"," ","p","r","e","m","i","u","m",
         " ","c","a","r","r","y","i","n","g"," ","c","a","s","e"," ","f",
         "o","r"," ","s","a","f","e"," ","t","r","a","n","s","p","o","r","t">>,
       <<"V","o","l","u","m","e"," ","d","i","s","c","o","u","n","t","s",
         " ","a","v","a","i","l","a","b","l","e"," ","f","o","r"," ","b",
         "u","s","i","n","e","s","s","e","s">>,
       <<"I","n","d","u","s","t","r","y","-","l","e","a","d","i","n","g",
         " ","w","a","r","r","a","n","t","y"," ","c","o","v","e","r","s",
         " ","a","l","l"," ","c","o","m","p","o","n","e","n","t","s">>,
       <<"L","i","m","i","t","e","d"," ","p","r","o","d","u","c","t","i",
         "o","n"," ","r","u","n"," ","s","e","l","l","i","n","g"," ","o",
         "u","t"," ","f","a","s","t">>,
       <<"F","r","e","e"," ","t","r","a","i","n","i","n","g"," ","s","e",
         "s","s","i","o","n"," ","w","i","t","h"," ","e","v","e","r","y",
         " ","p","u","r","c","h","a","s","e">>,
       <<"C","o","m","p","a","t","i","b","l","e"," ","w","i","t","h"," ",
         "a","l","l"," ","s","t","a","n","d","a","r","d"," ","m","o","u",
         "n","t","i","n","g"," ","e","q","u","i","p","m","e","n","t">> >>

\* for phrase in repetitive_phrases: content = content.replace(phrase, "").strip()
RECURSIVE WithoutPhrases(_, _)
WithoutPhrases(content, k) ==
    IF k > Len(repetitive_phrases) THEN content
    ELSE WithoutPhrases(Strip(Replace(content, repetitive_phrases[k], <<>>)), k + 1)

\* s.rstrip('.')
RECURSIVE RStripDots(_)
RStripDots(s) ==
    IF s # <<>> /\ s[Len(s)] = "." THEN RStripDots(SubSeq(s, 1, Len(s) - 1)) ELSE s

\* ' '.join(content.split()), then content.rstrip('.') + '.'
Tidied(content) == RStripDots(Join(SplitWhitespace(content), <<" ">>)) \o <<".">>

\* the tweet with its content and character count updated
Improved(tweet, content) ==
    [tweet EXCEPT !.content = content, !.character_count = Len(content)]

\* only tweets with more than this many characters are kept
substantial_length == 50

\* the loop over tweets from the k-th on: the improved tweets that are kept
RECURSIVE ImproveLoop(_, _)
ImproveLoop(parsed, k) ==
    IF k > Len(parsed) THEN <<>>
    ELSE (IF Len(Tidied(WithoutPhrases(parsed[k].content, 1))) > substantial_length
          THEN <<Improved(parsed[k], Tidied(WithoutPhrases(parsed[k].content, 1)))>>
          ELSE <<>>)
         \o ImproveLoop(parsed, k + 1)

_improve_thread_quality(thread_data) == ThreadData(ImproveLoop(thread_data.tweets, 1))

\* generate_thread_content with a Perplexity key, raw_content being the
\* answer of _query_perplexity
generate_thread_content(raw_content) ==
    _improve_thread_quality(_parse_thread_response(raw_content))

(***************************************************************************)
(* Thread posting: TwitterPoster.post_thread (utils/poster.py). The client *)
(* answers create_tweet with data holding the id of the new tweet, with no *)
(* data, or with an exception; timeline is what it has created.            *)
(***************************************************************************)

None == "None"

\* the longest text a credit is added to
credit_limit == 280

\* tweet_data['image']['credit']
PhotoCredit ==
    <<"P","h","o","t","o",":"," ","D","J","I">>

\* the text handed to create_tweet: the credit of the image added if it fits
TweetText(tweet_data) ==
    IF /\ tweet_data.image = "credited"
       /\ Len(tweet_data.text \o <<"\n", "\n">> \o PhotoCredit) <= credit_limit
    THEN tweet_data.text \o <<"\n", "\n">> \o PhotoCredit
    ELSE tweet_data.text

\* what _upload_image can return for the tweet: None or the media ids
MediaIds(tweet_data) ==
    IF tweet_data.image = "none" THEN {None} ELSE {None, "media_id"}

\* every reply aimed at the first tweet of the thread
ReplyTarget_First(target, data) == IF target = None THEN data.id ELSE target

\* reply_to_id = response.data['id']
ReplyTarget(target, data) == data.id

\* success = len(posted_tweets) == len(tweets)
Success(posted, given) == Len(posted) = Len(given)

(***************************************************************************)
(* The threads and hashtag lists the distributor is called with            *)
(***************************************************************************)

MaxThread == 3

MaxHashtags == 3

TweetLengths == {200, 270, 275, 285}

Hashtags == { <<"#", "U", "A", "V", "s">>, <<"#", "D", "r", "o", "n", "e", "O", "p", "s">> }

RECURSIVE ListsOf(_, _)
ListsOf(S, n) ==
    IF n = 0 THEN {<<>>}
    ELSE LET shorter == ListsOf(S, n - 1)
         IN  shorter \cup {Append(l, x) : l \in shorter, x \in S}

(***************************************************************************)
(* The texts the optimizer is called with: up to MaxPieces pieces, each a  *)
(* run of letters, a separator (a space, the end of a sentence, a period   *)
(* set off by a space as the removal of a hashtag leaves it) or a hashtag. *)
(***************************************************************************)

MaxPieces == 4

Pieces ==
    { Rep("a", 16), Rep("a", 252), Rep("a", 254),
      <<" ">>, <<".", " ">>, <<" ", ".", " ">>,
      <<"#">> \o Rep("b", 5), <<"#">> \o Rep("c", 15), <<"#">> \o Rep("d", 280) }

RECURSIVE TextsOf(_)
TextsOf(n) ==
    IF n = 0 THEN {<<>>}
    ELSE LET shorter == TextsOf(n - 1)
         IN  shorter \cup {t \o p : t \in shorter, p \in Pieces}

(***************************************************************************)
(* The contents split_content is called with: up to MaxParts parts, each   *)
(* a run of short words, a sentence, a blank, a paragraph break, a         *)
(* statistic, a power word, a clause that opens a conclusion, one long     *)
(* word, or a statistic of many digits.                                    *)
(***************************************************************************)

MaxParts == 3

\* the word w written n times
Times(w, n) == [i \in 1..(n * Len(w)) |-> w[((i - 1) % Len(w)) + 1]]

Parts ==
    { Times(<<"d","e","e","p"," ","d","a","t","a"," ">>, 10),
      Rep("s", 108) \o <<".", " ">>,
      <<" ">>,
      <<"\n", "\n">>,
      <<"$","5","M"," ","i","n"," ","3"," ","y","e","a","r","s","."," ">>,
      <<"B","r","e","a","k","t","h","r","o","u","g","h","!"," ">>,
      <<","," ","b","u","t"," ","F","i","n","a","l","l","y"," ">>,
      Rep("x", 250),
      Rep("7", 190) \o <<"%", " ">> }

RECURSIVE ContentsOf(_)
ContentsOf(n) ==
    IF n = 0 THEN {<<>>}
    ELSE LET shorter == ContentsOf(n - 1)
         IN  shorter \cup {t \o p : t \in shorter, p \in Parts}

\* the values of max_tweets
MaxTweets == {0, 1, 2, default_max_tweets}

(***************************************************************************)
(* The answers of the backend generate_ideas parses: lists of up to        *)
(* MaxIdeas titles; num_ideas is at most MaxIdeas as well, and             *)
(* generate_ideas is called MaxGenerated times.                            *)
(***************************************************************************)

MaxIdeas == 2

MaxGenerated == 2

IdeaTitles ==
    { wDrone,
      <<" ">> \o wdrone \o <<" ">>,
      Spaced(<<wDrone, wrace>>),
      Spaced(<<wmap, wfly>>) }

(***************************************************************************)
(* The threads the scorer and the validator are called with: up to MaxLead *)
(* tweets of a catalogue, followed by up to MaxFollow copies of one short   *)
(* tweet.                                                                  *)
(* A tweet of the catalogue is a run of 24-letter words, a run of one      *)
(* letter, or a text.                                                      *)
(***************************************************************************)

MaxLead == 2

MaxFollow == 9

Letters == <<"a", "b", "c", "d", "e", "f", "g", "h", "j", "k", "l", "m">>

\* the words numbered in picks, separated by single spaces
Wordy(picks) == Join([k \in 1..Len(picks) |-> Rep(Letters[picks[k]], 24)], <<" ">>)

FirstWords(n) == [k \in 1..n |-> k]

OnTopic == PySlice(Times(<<"d","r","o","n","e"," ","f","l","i","g","h","t",
                           " ">>, 20), 259)

FollowUp == <<"D","r","o","n","e"," ","f","l","i","g","h","t"," ","d","a",
              "t","a",".">>

Engaging ==
    <<Spool," ","T","H","R","E","A","D",":"," ","n","o","b","o","d","y"," ",
      "t","e","l","l","s"," ","y","o","u"," ","w","h","y"," ","9","0","%",
      " ","o","f"," ","p","i","l","o","t","s"," ","g","e","t"," ","t","h",
      "i","s"," ","w","r","o","n","g","?"," ","W","h","y","?"," ","H","o",
      "w","?"," ">>
    \o <<"R","e","a","l","l","y","?"," ",Rocket,Rocket,Rocket,Rocket,Rocket,
         Rocket,Rocket,Rocket," ","#","a"," ","#","b"," ","#","c"," ","#",
         "d"," ","#","e"," ","r","e","t","w","e","e","t"," ","s","h","a",
         "r","e"," ","c","o","m","m","e","n","t"," ","t","h","o","u","g",
         "h","t","s"," ">>
    \o <<"d","i","s","a","g","r","e","e"," ","e","x","p","e","r","i","e",
         "n","c","e"," ","d","r","o","p"," ","w","h","a","t"," ","d","o",
         " ","y","o","u"," ","t","h","i","n","k"," ","$","5"," ","1","0",
         "x"," ","3"," ","y","e","a","r","s"," ","7","%">>

ReviewTweets ==
    { Wordy(FirstWords(10)),
      Wordy(FirstWords(8) \o <<11, 12>>),
      Wordy(FirstWords(7)),
      Wordy(FirstWords(8)),
      Rep("d", 239),
      Rep("d", 240),
      Rep("d", 280),
      Rep("d", 281),
      Rep("d", 290),
      <<" ">> \o Rep("d", 259),
      Rep("d", 129) \o <<" ", " ">> \o Rep("d", 129),
      Engaging,
      OnTopic }

Threads ==
    {lead \o [k \in 1..n |-> FollowUp] :
        lead \in ListsOf(ReviewTweets, MaxLead), n \in 0..MaxFollow}

(***************************************************************************)
(* The contents format_drone_content is called with: an opener, which may  *)
(* hold a repetitive phrase, a theme word or a call to action, followed by *)
(* a content of the segmenter's catalogue.                                 *)
(***************************************************************************)

Openers ==
    { <<>>,
      <<"t","h","e"," ","s","y","s","t","e","m"," ","p","r","o","v","i","d",
        "e","s"," ","b","e","t","t","e","r"," ","r","e","s","u","l","t","s",
        "."," ","T","e","c","h","n","i","c","a","l"," ","t","r","e","n","d",
        ":"," ">>,
      <<"G","e","t"," ","R","O","I"," ","."," "," ","."," ">> }

FormatContents == {opener \o c : opener \in Openers, c \in ContentsOf(MaxParts)}

(***************************************************************************)
(* The raw tweets process_ai_tweets is called with: lists of up to MaxRaw  *)
(* raw tweets; the tweet counts create_fallback_thread is called with; and *)
(* the answers of the backend _parse_thread_response is called with: up to *)
(* MaxLines lines joined by newlines.                                      *)
(***************************************************************************)

MaxRaw == 3

MaxCount == 9

MaxLines == 3

RawTweet(is_dict, keys, tweet_text, type, needs_image) ==
    [is_dict |-> is_dict, keys |-> keys, text |-> tweet_text, type |-> type,
     needs_image |-> needs_image]

RawTweets ==
    { RawTweet(FALSE, {}, <<>>, "", FALSE),
      RawTweet(TRUE, {"type"}, <<>>, "content", FALSE),
      RawTweet(TRUE, {"text"}, <<"D","r","o","n","e","s"," ","m","a","p",
                                 " ","f","i","e","l","d","s",".">>, "", FALSE),
      RawTweet(TRUE, {"text", "type", "needs_image"}, <<"F","l","y"," ","s",
                                                        "a","f","e","."," ",
                                                        "#","U","A","V">>, "intro", FALSE) }

RECURSIVE SequencesOf(_, _)
SequencesOf(S, n) ==
    IF n = 0 THEN {<<>>}
    ELSE SequencesOf(S, n - 1)
         \cup {Append(q, x) : q \in {p \in SequencesOf(S, n - 1) : Len(p) = n - 1}, x \in S}

ResponseLines ==
    { <<"T","w","e","e","t"," ","1",":"," ","D","r","o","n","e","s"," ","m",
        "a","p"," ","a"," ","f","i","e","l","d"," ","i","n"," ","m","i","n",
        "u","t","e","s"," ","a","n","d"," ","s","h","o","w"," ","w","h","e",
        "r","e"," ","t","h","e"," ","c","r","o","p"," ","n","e","e","d","s",
        " ","w","a","t","e","r",".">>,
      <<"T","w","e","e","t"," ","2",":"," ","S","h","o","r","t"," ","t","i",
        "p",".">>,
      <<"T","w","e","e","t"," ","3",":">>,
      <<"2",":"," ","T","h","e","r","m","a","l"," ","c","a","m","e","r","a",
        "s"," ","f","i","n","d"," ","a"," ","m","i","s","s","i","n","g"," ",
        "h","i","k","e","r"," ","a","t"," ","n","i","g","h","t"," ","l","o",
        "n","g"," ","b","e","f","o","r","e"," ","a"," ","g","r","o","u","n",
        "d"," ","t","e","a","m"," ","c","a","n",".">>,
      <<"#"," ","N","o","t","e","s">>,
      <<"S","u","r","v","e","y"," ","d","r","o","n","e","s"," ","k","e","e",
        "p"," ","t","h","e","i","r"," ","d","a","t","a"," ","s","h","a","r",
        "p"," ","i","n"," ","s","t","r","o","n","g"," ","w","i","n","d"," ",
        "o","v","e","r"," ","t","h","e"," ","w","h","o","l","e"," ","v","a",
        "l","l","e","y"," ","a","n","d"," ","b","r","i","n","g"," ","t","h",
        "e"," ","c","o","s","t"," ","o","f"," ","a"," ","m","a","p"," ","d",
        "o","w","n"," ","b","y"," ","h","a","l","f"," ","i","n"," ","a"," ",
        "y","e","a","r",".">>,
      <<"F","r","e","e"," ","t","r","a","i","n","i","n","g"," ","s","e","s",
        "s","i","o","n"," ","w","i","t","h"," ","e","v","e","r","y"," ","p",
        "u","r","c","h","a","s","e",".">>,
      <<>> }

Responses == {Join(lines, <<"\n">>) : lines \in SequencesOf(ResponseLines, MaxLines)}

(***************************************************************************)
(* The contents _find_best_break_point is called with: up to MaxStretches  *)
(* stretches, each a run of letters closed by a break or by nothing.       *)
(***************************************************************************)

MaxStretches == 3

\* a run of 193 letters puts the end of a sentence break after it on the
\* lower edge of the target range, one of 48 letters after that on the upper
StretchLengths == {20, 48, 193}

Closers ==
    { <<>>,
      <<"."," ">>,
      <<"!"," ">>,
      <<"\n","\n">>,
      <<","," ","b","u","t">> }

Stretches == {Rep("a", n) \o closer : n \in StretchLengths, closer \in Closers}

RECURSIVE Concat(_)
Concat(parts) == IF parts = <<>> THEN <<>> ELSE parts[1] \o Concat(Tail(parts))

BreakContents == {Concat(parts) : parts \in SequencesOf(Stretches, MaxStretches)}

(***************************************************************************)
(* The threads post_thread is called with: up to MaxPosts tweets, each     *)
(* with or without an image, the image with or without a credit; and the   *)
(* ids the client gives to the tweets it creates.                          *)
(***************************************************************************)

MaxPosts == 3

PostTweets ==
    { [text |-> <<"F","l","y"," ","s","a","f","e",".">>, image |-> "none"],
      [text |-> <<"M","a","p"," ","i","t",".">>, image |-> "plain"],
      [text |-> <<"W","i","d","e"," ","s","h","o","t",".">>, image |-> "credited"],
      [text |-> Rep("a", 275), image |-> "credited"] }

TweetIds == {"id1", "id2", "id3", "id4"}

(***************************************************************************)
(* The scheduler: the threads start_scheduler may start, up to MaxLoops of *)
(* them, and the times of the day posts are scheduled at.                  *)
(***************************************************************************)

MaxLoops == 3

LoopThreads == 1..MaxLoops

post_times == <<"10:00", "19:00">>

(***************************************************************************)
(* The state machines: one specification for each component, the          *)
(* variables of the other components at rest                              *)
(***************************************************************************)

NoCall ==
    [op |-> "none", content |-> <<>>, content_type |-> "general",
     threshold |-> DefaultThreshold, ret |-> TRUE, raised |-> "none"]

OptimizerIdle ==
    /\ text = <<>>
    /\ result = <<>>
    /\ calls = 0

DedupIdle ==
    /\ content_hashes = {}
    /\ used_phrases = {}
    /\ used_topics = {}
    /\ recorded = {}
    /\ last = NoCall

HashtagIdle ==
    /\ tweets = <<>>
    /\ hashtags = <<>>
    /\ tagged = NotCalled

SegmenterIdle ==
    /\ seg_content = <<>>
    /\ seg_max_tweets = default_max_tweets
    /\ seg_chunks = NotCalled
    /\ formatted = NotCalled

NoIdeas == [model_used |-> "none", titles |-> <<>>]

IdeatorIdle ==
    /\ deduplicator = [content_hashes |-> {}, used_phrases |-> {}, used_topics |-> {}]
    /\ ideas = NoIdeas
    /\ returned = {}
    /\ returned_twice = {}
    /\ generated = 0

ReviewIdle ==
    /\ thread = <<>>
    /\ engagement = NotCalled
    /\ validation = NotCalled

NumberingIdle ==
    /\ given_tweets = <<>>
    /\ given_count = 0
    /\ given_answer = <<>>
    /\ processed = NotCalled
    /\ fallback_thread = NotCalled
    /\ ideator_thread = NotCalled

BreakIdle ==
    /\ break_content = <<>>
    /\ break_point = NotCalled

PosterIdle ==
    /\ client = FALSE
    /\ dry_run = FALSE
    /\ thread_tweets = <<>>
    /\ post_index = 0
    /\ reply_to_id = None
    /\ posted_tweets = <<>>
    /\ timeline = <<>>
    /\ post_error = "none"
    /\ post_pc = "idle"
    /\ post_result = FALSE

SchedulerIdle ==
    /\ is_running = FALSE
    /\ scheduler_thread = None
    /\ jobs = 0
    /\ loop_pc = [t \in LoopThreads |-> "unborn"]

OptimizerInit ==
    /\ text \in TextsOf(MaxPieces)
    /\ result = <<>>
    /\ calls = 0
    /\ DedupIdle
    /\ HashtagIdle
    /\ SegmenterIdle
    /\ IdeatorIdle
    /\ ReviewIdle
    /\ NumberingIdle
    /\ BreakIdle
    /\ PosterIdle
    /\ SchedulerIdle

\* a pipeline step hands a text to optimize_tweet_length(text, 260, 280)
Optimize ==
    /\ calls = 0
    /\ result' = optimize_tweet_length(text, min_length, max_length)
    /\ calls' = 1
    /\ UNCHANGED <<text, dedupVars, hashtagVars, segmenterVars, ideatorVars, reviewVars, numberingVars, breakVars, posterVars,
                   schedulerVars>>

\* the value returned is optimized once more
Reoptimize ==
    /\ calls = 1
    /\ text' = result
    /\ result' = optimize_tweet_length(result, min_length, max_length)
    /\ calls' = 2
    /\ UNCHANGED <<dedupVars, hashtagVars, segmenterVars, ideatorVars, reviewVars, numberingVars, breakVars, posterVars,
                   schedulerVars>>

OptimizerNext == Optimize \/ Reoptimize

OptimizerSpec == OptimizerInit /\ [][OptimizerNext]_vars

DedupInit ==
    /\ DedupIdle
    /\ OptimizerIdle
    /\ HashtagIdle
    /\ SegmenterIdle
    /\ IdeatorIdle
    /\ ReviewIdle
    /\ NumberingIdle
    /\ BreakIdle
    /\ PosterIdle
    /\ SchedulerIdle

\* add_used_content storing the topic whatever the content_type is
add_used_content_AnyType(content, content_type) ==
    /\ Cardinality(recorded \cup {content}) <= MaxRecorded
    /\ content_hashes' = content_hashes \cup {AddedHashOf[content]}
    /\ used_phrases' = used_phrases \cup Range(KeyPhrases(content))
    /\ used_topics' = used_topics \cup {NormalizedOf[content]}
    /\ recorded' = recorded \cup {content}
    /\ last' = [NoCall EXCEPT !.op = "add_used_content", !.content = content,
                              !.content_type = content_type]
    /\ UNCHANGED <<optimizerVars, hashtagVars, segmenterVars, ideatorVars, reviewVars, numberingVars, breakVars, posterVars,
                   schedulerVars>>

\* ContentDeduplicator.add_used_content(content, content_type)
add_used_content(content, content_type) ==
    /\ Cardinality(recorded \cup {content}) <= MaxRecorded
    /\ content_hashes' = content_hashes \cup {AddedHashOf[content]}
    /\ used_phrases' = used_phrases \cup Range(KeyPhrases(content))
    /\ used_topics' = IF content_type = "topic"
                      THEN used_topics \cup {NormalizedOf[content]}
                      ELSE used_topics
    /\ recorded' = recorded \cup {content}
    /\ last' = [NoCall EXCEPT !.op = "add_used_content", !.content = content,
                              !.content_type = content_type]
    /\ UNCHANGED <<optimizerVars, hashtagVars, segmenterVars, ideatorVars, reviewVars, numberingVars, breakVars, posterVars,
                   schedulerVars>>

AddUsedContent ==
    \E content \in DedupTexts, content_type \in ContentTypes :
        add_used_content(content, content_type)

\* ContentDeduplicator.is_content_unique(content, similarity_threshold)
IsContentUnique ==
    \E content \in DedupTexts, threshold \in Thresholds :
        /\ last' = [NoCall EXCEPT
                      !.op = "is_content_unique", !.content = content,
                      !.threshold = threshold,
                      !.ret = is_content_unique(content, threshold,
                                                content_hashes, used_phrases)]
        /\ UNCHANGED <<content_hashes, used_phrases, used_topics, recorded>>
        /\ UNCHANGED <<optimizerVars, hashtagVars, segmenterVars, ideatorVars, reviewVars, numberingVars, breakVars, posterVars,
                   schedulerVars>>

\* ContentIdeator.clear_content_history(): the deduplicator has no method
\* clear_history, so the call raises AttributeError before anything changes
ClearContentHistory ==
    /\ last' = [NoCall EXCEPT !.op = "clear_content_history",
                              !.raised = "AttributeError"]
    /\ UNCHANGED <<content_hashes, used_phrases, used_topics, recorded>>
    /\ UNCHANGED <<optimizerVars, hashtagVars, segmenterVars, ideatorVars, reviewVars, numberingVars, breakVars, posterVars,
                   schedulerVars>>

DedupNext == AddUsedContent \/ IsContentUnique \/ ClearContentHistory

DedupSpec == DedupInit /\ [][DedupNext]_vars


HashtagInit ==
    /\ tweets \in ListsOf({Rep("a", n) : n \in TweetLengths}, MaxThread)
    /\ hashtags \in ListsOf(Hashtags, MaxHashtags)
    /\ tagged = NotCalled
    /\ OptimizerIdle
    /\ DedupIdle
    /\ SegmenterIdle
    /\ IdeatorIdle
    /\ ReviewIdle
    /\ NumberingIdle
    /\ BreakIdle
    /\ PosterIdle
    /\ SchedulerIdle

AddHashtagsToThread ==
    /\ tagged = NotCalled
    /\ tagged' = add_hashtags_to_thread(tweets, hashtags)
    /\ UNCHANGED <<tweets, hashtags, optimizerVars, dedupVars, segmenterVars, ideatorVars, reviewVars, numberingVars, breakVars, posterVars,
                   schedulerVars>>

HashtagNext == AddHashtagsToThread

HashtagSpec == HashtagInit /\ [][HashtagNext]_vars

SegmenterInit ==
    /\ seg_content \in ContentsOf(MaxParts)
    /\ seg_max_tweets \in MaxTweets
    /\ seg_chunks = NotCalled
    /\ formatted = NotCalled
    /\ OptimizerIdle
    /\ DedupIdle
    /\ HashtagIdle
    /\ IdeatorIdle
    /\ ReviewIdle
    /\ NumberingIdle
    /\ BreakIdle
    /\ PosterIdle
    /\ SchedulerIdle

\* ThreadBuilder.split_content(content, max_tweets)
SplitContent ==
    /\ seg_chunks = NotCalled
    /\ seg_chunks' = Returned(split_content(seg_content, seg_max_tweets))
    /\ UNCHANGED <<seg_content, seg_max_tweets, formatted, optimizerVars, dedupVars,
                   hashtagVars, ideatorVars, reviewVars, numberingVars, breakVars, posterVars,
                   schedulerVars>>

SegmenterNext == SplitContent

SegmenterSpec == SegmenterInit /\ [][SegmenterNext]_vars

FormatInit ==
    /\ seg_content \in FormatContents
    /\ seg_max_tweets = default_max_tweets
    /\ seg_chunks = NotCalled
    /\ formatted = NotCalled
    /\ OptimizerIdle
    /\ DedupIdle
    /\ HashtagIdle
    /\ IdeatorIdle
    /\ ReviewIdle
    /\ NumberingIdle
    /\ BreakIdle
    /\ PosterIdle
    /\ SchedulerIdle

\* ThreadBuilder.format_drone_content(content)
FormatDroneContent ==
    /\ formatted = NotCalled
    /\ formatted' = Returned(format_drone_content(seg_content))
    /\ UNCHANGED <<seg_content, seg_max_tweets, seg_chunks, optimizerVars, dedupVars,
                   hashtagVars, ideatorVars, reviewVars, numberingVars, breakVars, posterVars,
                   schedulerVars>>

FormatNext == FormatDroneContent

FormatSpec == FormatInit /\ [][FormatNext]_vars

IdeatorInit ==
    /\ IdeatorIdle
    /\ ReviewIdle
    /\ OptimizerIdle
    /\ DedupIdle
    /\ HashtagIdle
    /\ SegmenterIdle
    /\ NumberingIdle
    /\ BreakIdle
    /\ PosterIdle
    /\ SchedulerIdle

\* what a generate_ideas call leaves behind: the ideas it returns and the
\* deduplicator d
ReturnIdeas(model_used, titles, d) ==
    /\ deduplicator' = d
    /\ ideas' = [model_used |-> model_used, titles |-> titles]
    /\ returned' = returned \cup Range(titles)
    /\ returned_twice' = returned_twice \cup Repeated(titles, returned)
    /\ generated' = generated + 1
    /\ UNCHANGED <<optimizerVars, dedupVars, hashtagVars, segmenterVars, reviewVars, numberingVars, breakVars, posterVars,
                   schedulerVars>>

\* _generate_fallback_ideas(num_ideas): num_ideas titles, each made of a
\* template chosen at random; the deduplicator is not consulted
_generate_fallback_ideas(num_ideas, d) ==
    \E titles \in [1..num_ideas -> FallbackTitles] :
        ReturnIdeas("Fallback Generator", titles, d)

\* generate_ideas(model_name, num_ideas), the backend answering with a list
\* of ideas: the titles _parse_ideas_response accepts are returned, and the
\* fallback ideas when it accepts none
GenerateIdeas ==
    \E num_ideas \in 1..MaxIdeas, response \in ListsOf(IdeaTitles, MaxIdeas) :
        /\ generated < MaxGenerated
        /\ LET parsed == ParseIdeas(response, deduplicator, <<>>)
           IN  IF parsed.valid_ideas # <<>>
               THEN ReturnIdeas("model", parsed.valid_ideas, parsed.deduplicator)
               ELSE _generate_fallback_ideas(num_ideas, parsed.deduplicator)

\* generate_ideas(model_name, num_ideas), the backend missing or raising:
\* the except branch returns the fallback ideas
GenerateIdeasBackendFails ==
    \E num_ideas \in 1..MaxIdeas :
        /\ generated < MaxGenerated
        /\ _generate_fallback_ideas(num_ideas, deduplicator)

IdeatorNext == GenerateIdeas \/ GenerateIdeasBackendFails

IdeatorSpec == IdeatorInit /\ [][IdeatorNext]_vars

ReviewInit ==
    /\ thread \in Threads
    /\ engagement = NotCalled
    /\ validation = NotCalled
    /\ OptimizerIdle
    /\ DedupIdle
    /\ HashtagIdle
    /\ SegmenterIdle
    /\ IdeatorIdle
    /\ NumberingIdle
    /\ BreakIdle
    /\ PosterIdle
    /\ SchedulerIdle

\* a behaviour makes one call: the builder keeps nothing between two calls
AnalyzeEngagementPotential ==
    /\ engagement = NotCalled
    /\ validation = NotCalled
    /\ engagement' = analyze_engagement_potential(thread)
    /\ UNCHANGED <<thread, validation, optimizerVars, dedupVars, hashtagVars,
                   segmenterVars, ideatorVars,
                   numberingVars, breakVars, posterVars, schedulerVars>>

ValidateThread ==
    /\ engagement = NotCalled
    /\ validation = NotCalled
    /\ validation' = validate_thread(thread)
    /\ UNCHANGED <<thread, engagement, optimizerVars, dedupVars, hashtagVars,
                   segmenterVars, ideatorVars,
                   numberingVars, breakVars, posterVars, schedulerVars>>

ReviewNext == AnalyzeEngagementPotential \/ ValidateThread

ReviewSpec == ReviewInit /\ [][ReviewNext]_vars

BreakInit ==
    /\ break_content \in BreakContents
    /\ break_point = NotCalled
    /\ OptimizerIdle
    /\ DedupIdle
    /\ HashtagIdle
    /\ SegmenterIdle
    /\ IdeatorIdle
    /\ ReviewIdle
    /\ NumberingIdle
    /\ PosterIdle
    /\ SchedulerIdle

\* the window _get_next_chunk_enhanced hands to _find_best_break_point:
\* content[:self.effective_length + 100]
Window(content) == PySlice(content, effective_length + 100)

\* best_break = self._find_best_break_point(content[:self.effective_length + 100])
FindBestBreakPoint ==
    /\ break_point.raised = "pending"
    /\ break_point' = Returned(_find_best_break_point(Window(break_content)))
    /\ UNCHANGED <<break_content, optimizerVars, dedupVars, hashtagVars, segmenterVars,
                   ideatorVars, reviewVars, numberingVars, posterVars,
                   schedulerVars>>

BreakNext == FindBestBreakPoint

BreakSpec == BreakInit /\ [][BreakNext]_vars

NumberingInit ==
    /\ \/ given_tweets \in SequencesOf(RawTweets, MaxRaw) /\ given_count = 0 /\ given_answer = <<>>
       \/ given_tweets = <<>> /\ given_count \in 0..MaxCount /\ given_answer = <<>>
       \/ given_tweets = <<>> /\ given_count = 0 /\ given_answer \in Responses
    /\ processed = NotCalled
    /\ fallback_thread = NotCalled
    /\ ideator_thread = NotCalled
    /\ OptimizerIdle
    /\ DedupIdle
    /\ HashtagIdle
    /\ SegmenterIdle
    /\ IdeatorIdle
    /\ ReviewIdle
    /\ BreakIdle
    /\ PosterIdle
    /\ SchedulerIdle

\* ThreadWriter.process_ai_tweets(raw_tweets)
ProcessAiTweets ==
    /\ processed = NotCalled
    /\ processed' = Returned(process_ai_tweets(given_tweets))
    /\ UNCHANGED <<given_tweets, given_count, given_answer, fallback_thread, ideator_thread,
                   optimizerVars, dedupVars, hashtagVars, segmenterVars, ideatorVars,
                   reviewVars, breakVars, posterVars, schedulerVars>>

\* ThreadWriter.create_fallback_thread(topic, tweet_count)
CreateFallbackThread ==
    /\ fallback_thread = NotCalled
    /\ fallback_thread' = Returned(create_fallback_thread(given_count))
    /\ UNCHANGED <<given_tweets, given_count, given_answer, processed, ideator_thread,
                   optimizerVars, dedupVars, hashtagVars, segmenterVars, ideatorVars,
                   reviewVars, breakVars, posterVars, schedulerVars>>

\* ContentIdeator.generate_thread_content(theme, tweet_count), the backend
\* answering given_answer
GenerateThreadContent ==
    /\ ideator_thread = NotCalled
    /\ ideator_thread' = Returned(generate_thread_content(given_answer))
    /\ UNCHANGED <<given_tweets, given_count, given_answer, processed, fallback_thread,
                   optimizerVars, dedupVars, hashtagVars, segmenterVars, ideatorVars,
                   reviewVars, breakVars, posterVars, schedulerVars>>

NumberingNext == ProcessAiTweets \/ CreateFallbackThread \/ GenerateThreadContent

NumberingSpec == NumberingInit /\ [][NumberingNext]_vars

PosterInit ==
    /\ client \in BOOLEAN
    /\ dry_run \in BOOLEAN
    /\ thread_tweets \in SequencesOf(PostTweets, MaxPosts)
    /\ post_index = 0
    /\ reply_to_id = None
    /\ posted_tweets = <<>>
    /\ timeline = <<>>
    /\ post_error = "none"
    /\ post_pc = "idle"
    /\ post_result = FALSE
    /\ OptimizerIdle
    /\ DedupIdle
    /\ HashtagIdle
    /\ SegmenterIdle
    /\ IdeatorIdle
    /\ ReviewIdle
    /\ NumberingIdle
    /\ BreakIdle
    /\ SchedulerIdle

\* post_thread(thread_data, dry_run) up to the loop: the calls that return
\* at once, and the start of the loop
PostThread ==
    /\ post_pc = "idle"
    /\ IF ~client THEN post_pc' = "returned" /\ post_result' = FALSE
       ELSE IF dry_run THEN post_pc' = "returned" /\ post_result' = TRUE
       ELSE IF thread_tweets = <<>> THEN post_pc' = "returned" /\ post_result' = FALSE
       ELSE post_pc' = "loop" /\ post_result' = post_result
    /\ UNCHANGED <<client, dry_run, thread_tweets, post_index, reply_to_id, posted_tweets,
                   timeline, post_error>>
    /\ UNCHANGED <<optimizerVars, dedupVars, hashtagVars, segmenterVars, ideatorVars,
                   reviewVars, numberingVars, breakVars, schedulerVars>>

\* one pass of the loop in which create_tweet answers with data: the tweet
\* is created as a reply to reply_to_id and its id is the next reply target
CreateTweet ==
    /\ post_pc = "loop"
    /\ post_index < Len(thread_tweets)
    /\ \E id \in TweetIds \ {timeline[k].id : k \in 1..Len(timeline)},
          media_ids \in MediaIds(thread_tweets[post_index + 1]) :
          LET data == [id |-> id, text |-> TweetText(thread_tweets[post_index + 1])]
          IN  /\ timeline' = Append(timeline,
                                    [text |-> TweetText(thread_tweets[post_index + 1]),
                                     in_reply_to_tweet_id |-> reply_to_id,
                                     media_ids |-> media_ids,
                                     id |-> id])
              /\ posted_tweets' = Append(posted_tweets, data)
              /\ reply_to_id' = ReplyTarget(reply_to_id, data)
    /\ post_index' = post_index + 1
    /\ UNCHANGED <<client, dry_run, thread_tweets, post_error, post_pc, post_result>>
    /\ UNCHANGED <<optimizerVars, dedupVars, hashtagVars, segmenterVars, ideatorVars,
                   reviewVars, numberingVars, breakVars, schedulerVars>>

\* one pass of the loop in which create_tweet answers without data: break
CreateTweetWithoutData ==
    /\ post_pc = "loop"
    /\ post_index < Len(thread_tweets)
    /\ post_error' = "no data"
    /\ post_pc' = "after loop"
    /\ UNCHANGED <<client, dry_run, thread_tweets, post_index, reply_to_id, posted_tweets,
                   timeline, post_result>>
    /\ UNCHANGED <<optimizerVars, dedupVars, hashtagVars, segmenterVars, ideatorVars,
                   reviewVars, numberingVars, breakVars, schedulerVars>>

\* one pass of the loop in which create_tweet raises: break
CreateTweetRaises ==
    /\ post_pc = "loop"
    /\ post_index < Len(thread_tweets)
    /\ post_error' = "exception"
    /\ post_pc' = "after loop"
    /\ UNCHANGED <<client, dry_run, thread_tweets, post_index, reply_to_id, posted_tweets,
                   timeline, post_result>>
    /\ UNCHANGED <<optimizerVars, dedupVars, hashtagVars, segmenterVars, ideatorVars,
                   reviewVars, numberingVars, breakVars, schedulerVars>>

\* what follows the loop, left by its end or by a break: success is
\* computed, logged and returned
ReturnSuccess ==
    /\ \/ post_pc = "loop" /\ post_index = Len(thread_tweets)
       \/ post_pc = "after loop"
    /\ post_result' = Success(posted_tweets, thread_tweets)
    /\ post_pc' = "returned"
    /\ UNCHANGED <<client, dry_run, thread_tweets, post_index, reply_to_id, posted_tweets,
                   timeline, post_error>>
    /\ UNCHANGED <<optimizerVars, dedupVars, hashtagVars, segmenterVars, ideatorVars,
                   reviewVars, numberingVars, breakVars, schedulerVars>>

PosterNext ==
    \/ PostThread
    \/ CreateTweet
    \/ CreateTweetWithoutData
    \/ CreateTweetRaises
    \/ ReturnSuccess

PosterSpec == PosterInit /\ [][PosterNext]_vars

\* the threads threading.Thread has not created yet, and the one it
\* creates next
Unborn == {t \in LoopThreads : loop_pc[t] = "unborn"}

NextThread == CHOOSE t \in Unborn : \A u \in Unborn : t <= u

\* a thread that was started and has not left _run_scheduler
Alive(t) == loop_pc[t] \in {"while", "run_pending", "sleep"}

\* the body of start_scheduler: nothing but a warning when is_running is
\* set, else the flag is set and a new thread is started on _run_scheduler
start_scheduler ==
    IF is_running
    THEN UNCHANGED <<is_running, scheduler_thread, loop_pc>>
    ELSE /\ is_running' = TRUE
         /\ scheduler_thread' = NextThread
         /\ loop_pc' = [loop_pc EXCEPT ![NextThread] = "while"]

SchedulerInit ==
    /\ is_running = FALSE
    /\ scheduler_thread = None
    /\ jobs = 0
    /\ loop_pc = [t \in LoopThreads |-> "unborn"]
    /\ OptimizerIdle
    /\ DedupIdle
    /\ HashtagIdle
    /\ SegmenterIdle
    /\ IdeatorIdle
    /\ ReviewIdle
    /\ NumberingIdle
    /\ BreakIdle
    /\ PosterIdle

\* PostScheduler.start_scheduler()
StartScheduler ==
    /\ is_running \/ Unborn # {}
    /\ start_scheduler
    /\ UNCHANGED jobs
    /\ UNCHANGED <<optimizerVars, dedupVars, hashtagVars, segmenterVars, ideatorVars,
                   reviewVars, numberingVars, breakVars, posterVars>>

\* PostScheduler.stop_scheduler(): the flag is cleared and the schedule
\* emptied; the thread is neither joined nor told anything else
StopScheduler ==
    /\ is_running' = FALSE
    /\ jobs' = 0
    /\ UNCHANGED <<scheduler_thread, loop_pc>>
    /\ UNCHANGED <<optimizerVars, dedupVars, hashtagVars, segmenterVars, ideatorVars,
                   reviewVars, numberingVars, breakVars, posterVars>>

\* PostScheduler.schedule_daily_posts(): the schedule is emptied, one job is
\* added for each post time, and the scheduler is started unless it runs
ScheduleDailyPosts ==
    /\ is_running \/ Unborn # {}
    /\ jobs' = Len(post_times)
    /\ start_scheduler
    /\ UNCHANGED <<optimizerVars, dedupVars, hashtagVars, segmenterVars, ideatorVars,
                   reviewVars, numberingVars, breakVars, posterVars>>

\* _run_scheduler, thread t: the test of "while self.is_running"
LoopTest(t) ==
    /\ loop_pc[t] = "while"
    /\ loop_pc' = [loop_pc EXCEPT ![t] = IF is_running THEN "run_pending" ELSE "ended"]
    /\ UNCHANGED <<is_running, scheduler_thread, jobs>>
    /\ UNCHANGED <<optimizerVars, dedupVars, hashtagVars, segmenterVars, ideatorVars,
                   reviewVars, numberingVars, breakVars, posterVars>>

\* _run_scheduler, thread t: schedule.run_pending(); whether it returns or
\* raises, time.sleep(60) comes next
RunPending(t) ==
    /\ loop_pc[t] = "run_pending"
    /\ loop_pc' = [loop_pc EXCEPT ![t] = "sleep"]
    /\ UNCHANGED <<is_running, scheduler_thread, jobs>>
    /\ UNCHANGED <<optimizerVars, dedupVars, hashtagVars, segmenterVars, ideatorVars,
                   reviewVars, numberingVars, breakVars, posterVars>>

\* _run_scheduler, thread t: time.sleep(60) is over, back to the test
Sleep(t) ==
    /\ loop_pc[t] = "sleep"
    /\ loop_pc' = [loop_pc EXCEPT ![t] = "while"]
    /\ UNCHANGED <<is_running, scheduler_thread, jobs>>
    /\ UNCHANGED <<optimizerVars, dedupVars, hashtagVars, segmenterVars, ideatorVars,
                   reviewVars, numberingVars, breakVars, posterVars>>

SchedulerNext ==
    \/ StartScheduler
    \/ StopScheduler
    \/ ScheduleDailyPosts
    \/ \E t \in LoopThreads : LoopTest(t)
    \/ \E t \in LoopThreads : RunPending(t)
    \/ \E t \in LoopThreads : Sleep(t)

SchedulerSpec == SchedulerInit /\ [][SchedulerNext]_vars

(***************************************************************************)
(* Properties of the Length Optimizer                                      *)
(***************************************************************************)

InBand(t) == min_length <= Len(t) /\ Len(t) <= max_length

\* the stripped body and the kept hashtag block together reach min_length
Feasible(t) ==
    Len(CleanText(t)) + Len(HashtagText(KeptHashtags(FindHashtags(t)))) >= min_length

\* C1: whatever the text, the string optimize_tweet_length returns is at most
\* max_length (280) characters long.
C1_ResultAtMostMaxLength == calls >= 1 => Len(result) <= max_length

\* C7: when the stripped body plus the hashtag block is at least min_length
\* long, the string returned has a length in [min_length, max_length].
C7_FeasibleResultInBand == (calls >= 1 /\ Feasible(text)) => InBand(result)

\* C8: optimizing a result whose length is within [min_length, max_length]
\* once more returns it unchanged.
C8_OptimizeIdempotentInBand == (calls = 2 /\ InBand(text)) => result = text

\* a result within the band that came out of a truncation has been optimized again
C8_Witness ==
    /\ calls = 2
    /\ InBand(text)
    /\ \E i \in 1..(Len(text) - 2) : SubSeq(text, i, i + 2) = <<".", ".", ".">>

\* the first two hashtags, each kept if the kept ones then total at most 15
\* characters
FirstTwoThatFit(found) ==
    IF found # <<>> /\ Len(found[1]) <= 15
    THEN IF Len(found) >= 2 /\ Len(found[1]) + Len(found[2]) <= 15
         THEN <<found[1], found[2]>>
         ELSE <<found[1]>>
    ELSE IF Len(found) >= 2 /\ Len(found[2]) <= 15 THEN <<found[2]>>
    ELSE <<>>

\* tag is a hashtag of found and none of found is shorter
IsShortestOf(tag, found) ==
    /\ \E i \in 1..Len(found) : found[i] = tag
    /\ \A i \in 1..Len(found) : Len(tag) <= Len(found[i])

\* block is the hashtag block the hashtags found in the input call for
IsBlockOf(block, found) ==
    IF found = <<>> THEN block = <<DefaultHashtag>>
    ELSE IF FirstTwoThatFit(found) # <<>> THEN block = FirstTwoThatFit(found)
    ELSE Len(block) = 1 /\ IsShortestOf(block[1], found)

\* C27: the result of optimize_tweet_length ends with a block of one or two
\* hashtags and holds no hashtag elsewhere; the block is the first two
\* hashtags of the input kept while they total at most 15 characters, or the
\* shortest hashtag of the input if none is kept, or "#Drone" if the input
\* has none.
C27_EndsWithHashtagBlock ==
    calls >= 1 =>
        /\ Len(FindHashtags(result)) \in {1, 2}
        /\ IsBlockOf(FindHashtags(result), FindHashtags(text))
        /\ EndsWith(result, <<" ">> \o Join(FindHashtags(result), <<" ">>))

\* the block is the third hashtag of the input, the shortest one, the first
\* two being too long
C27_Witness ==
    /\ calls >= 1
    /\ Len(FindHashtags(text)) >= 3
    /\ FirstTwoThatFit(FindHashtags(text)) = <<>>
    /\ FindHashtags(result) = <<FindHashtags(text)[3]>>

(***************************************************************************)
(* Properties of the Content Deduplicator                                  *)
(***************************************************************************)

\* C2: once add_used_content(x) has been called, is_content_unique(y) is
\* false for every y with the lower-cased, trimmed form of x, at every
\* threshold, in every later state; and a call made returns just that.
C2_RecordedIsNeverUnique ==
    /\ \A x \in recorded, y \in DedupTexts, threshold \in Thresholds :
          NormalizedOf[y] = NormalizedOf[x]
             => ~is_content_unique(y, threshold, content_hashes, used_phrases)
    /\ (last.op = "is_content_unique"
          /\ \E x \in recorded : NormalizedOf[last.content] = NormalizedOf[x])
       => last.ret = FALSE

\* a text differing from a recorded one in case and blanks only is asked
\* about after a further text was recorded, and is reported used
C2_Witness ==
    /\ last.op = "is_content_unique"
    /\ last.ret = FALSE
    /\ last.content \notin recorded
    /\ Cardinality(recorded) >= 2
    /\ \E x \in recorded : NormalizedOf[last.content] = NormalizedOf[x]

\* the extracted phrases of a content that the phrase set holds, counted by
\* position
UsedPositions(content) ==
    {i \in 1..Len(KeyPhrases(content)) :
        KeyPhrases(content)[i] \in used_phrases}

\* C9: for a text whose hash is not in the index, is_content_unique is true
\* iff the text has no phrases or (used phrases) / (phrases) < threshold; a
\* ratio equal to the threshold is reported not unique.
C9_UniqueIffRatioBelowThreshold ==
    (last.op = "is_content_unique" /\ MD5(NormalizedOf[last.content]) \notin content_hashes)
    => LET total == Len(KeyPhrases(last.content))
           used  == Cardinality(UsedPositions(last.content))
       IN  last.ret = (total = 0
                       \/ used * last.threshold[2] < last.threshold[1] * total)

\* a text four of whose five phrases are used is asked about at 0.8
C9_Witness ==
    /\ last.op = "is_content_unique"
    /\ MD5(NormalizedOf[last.content]) \notin content_hashes
    /\ last.threshold = DefaultThreshold
    /\ Len(KeyPhrases(last.content)) = 5
    /\ Cardinality(UsedPositions(last.content)) = 4
    /\ last.ret = FALSE

\* C10: clear_content_history empties the hash set, the phrase set and the
\* topic set, so that every text recorded before is unique again.
C10_ClearEmptiesTheIndex ==
    last.op = "clear_content_history"
    => /\ last.raised = "none"
       /\ content_hashes = {}
       /\ used_phrases = {}
       /\ used_topics = {}
       /\ \A x \in recorded :
             is_content_unique(x, DefaultThreshold, content_hashes, used_phrases)

\* C11: in every reachable state of the index is_content_unique raises
\* nothing and returns true for an empty or whitespace-only content, also
\* after the empty text was recorded.
C11_BlankContentIsUnique ==
    /\ \A y \in DedupTexts, threshold \in Thresholds :
          Strip(y) = <<>>
             => is_content_unique(y, threshold, content_hashes, used_phrases)
    /\ (last.op = "is_content_unique" /\ Strip(last.content) = <<>>)
       => (last.raised = "none" /\ last.ret = TRUE)

\* C12: over add_used_content and is_content_unique calls the hash set, the
\* phrase set and the topic set lose no element; is_content_unique leaves
\* the three sets as they are; the topic set changes only in an
\* add_used_content call with content_type "topic".
C12_IndexOnlyGrows ==
    [][ /\ content_hashes \subseteq content_hashes'
        /\ used_phrases \subseteq used_phrases'
        /\ used_topics \subseteq used_topics'
        /\ last'.op = "is_content_unique"
              => UNCHANGED <<content_hashes, used_phrases, used_topics>>
        /\ used_topics' # used_topics
              => (last'.op = "add_used_content" /\ last'.content_type = "topic")
      ]_vars

\* a general content was recorded after a topic, the topic set keeping the
\* one topic, and a content was asked about since
C12_Witness ==
    /\ last.op = "is_content_unique"
    /\ Cardinality(used_topics) = 1
    /\ Cardinality(content_hashes) >= 2
    /\ used_phrases # {}

(***************************************************************************)
(* Properties of idea generation                                           *)
(***************************************************************************)

\* C13: every title generate_ideas returned, on the model path and on the
\* fallback path, was checked and recorded in the deduplicator, so over all
\* the calls no two returned ideas have titles with the same lower-cased,
\* trimmed form.
C13_ReturnedTitlesRecordedAndDistinct ==
    /\ \A title \in returned :
          MD5(Normalized(title)) \in deduplicator.content_hashes
    /\ returned_twice = {}
    /\ \A x, y \in returned : x # y => Normalized(x) # Normalized(y)

(***************************************************************************)
(* Properties of the Hashtag Distributor                                   *)
(***************************************************************************)

AllWithinLimit(tw) == \A i \in 1..Len(tw) : Len(tw[i]) <= max_tweet_length

\* C5: given tweets of at most 280 characters each, every tweet of the list
\* add_hashtags_to_thread returns is at most 280 characters long.
C5_TaggedTweetsWithinLimit ==
    (tagged.raised = "none" /\ AllWithinLimit(tweets)) => AllWithinLimit(tagged.value)

\* hashtags were packed onto the first tweet and spread over an interior one
C5_Witness ==
    /\ tagged.raised = "none"
    /\ AllWithinLimit(tweets)
    /\ Len(tweets) = 3
    /\ Len(tagged.value[1]) > Len(tweets[1])
    /\ Len(tagged.value[2]) > Len(tweets[2])
    /\ Len(tagged.value[3]) = Len(tweets[3])

\* C6: for every list of tweets and every list of hashtags the call returns
\* normally a list with as many tweets as it was given.
C6_ReturnsAsManyTweets ==
    tagged # NotCalled
    => (tagged.raised = "none" /\ Len(tagged.value) = Len(tweets))

\* the tweets as the last-then-first priority pass leaves them
AfterPriorityPass == PriorityPass(tweets, hashtags, 0, <<Len(tweets) - 1, 0>>).tagged_tweets

\* the call returned after taking the distribution branch: there are
\* hashtags and the full hashtag string does not fit on the last tweet
Distributed ==
    /\ tagged.raised = "none"
    /\ hashtags # <<>>
    /\ tweets # <<>>
    /\ ~FullStringFits(tweets[Len(tweets)], Join(hashtags, <<" ">>))

\* C16: when the full hashtag string does not fit on the last tweet, the
\* round-robin over the hashtags left after the last-then-first priority pass
\* appends only to interior tweets: the first and the last tweet are returned
\* as the priority pass left them.
C16_LeftoversOnlyOnInteriorTweets ==
    Distributed
    => /\ tagged.value[1] = AfterPriorityPass[1]
       /\ tagged.value[Len(tweets)] = AfterPriorityPass[Len(tweets)]

(***************************************************************************)
(* Properties of the Thread Segmenter                                      *)
(***************************************************************************)

\* C3: for a content of at most effective_length (245) characters,
\* split_content returns exactly one chunk, the content with its leading and
\* trailing whitespace removed.
C3_ShortContentIsOneTrimmedChunk ==
    (seg_chunks # NotCalled /\ Len(seg_content) <= effective_length)
    => seg_chunks = Returned(<<Strip(seg_content)>>)

\* C4: for the empty content split_content returns the empty list and
\* raises nothing, whatever max_tweets is.
C4_EmptyContentGivesNoChunk ==
    (seg_chunks # NotCalled /\ seg_content = <<>>)
    => seg_chunks = Returned(<<>>)

\* the loop has produced max_tweets chunks and left more than 50 characters,
\* of which _create_closing_tweet makes a closing chunk
ClosingIsDueAfter(loop, limit) ==
    /\ Len(loop.collected) = limit
    /\ Len(Strip(loop.remaining_content)) > 50
    /\ _create_closing_tweet(loop.remaining_content) # <<>>

ClosingIsDue ==
    /\ Len(seg_content) > effective_length
    /\ ClosingIsDueAfter(LoopOf(seg_content, seg_max_tweets), seg_max_tweets)

\* C14: when the loop has produced max_tweets chunks and a closing chunk
\* can be made of the remainder, the result has max_tweets + 1 chunks; the
\* result never has more than max_tweets + 1 chunks.
C14_ClosingChunkOverflows ==
    seg_chunks # NotCalled
    => /\ ClosingIsDue => Len(seg_chunks.value) = seg_max_tweets + 1
       /\ Len(seg_chunks.value) <= seg_max_tweets + 1

\* C15: every chunk split_content returns for a content longer than
\* effective_length (the hook, a chunk with a transition in front, a chunk
\* cut at a break point or at a word, the closing chunk) is at most
\* effective_length (245) characters long.
C15_ChunksWithinEffectiveLength ==
    (seg_chunks # NotCalled /\ Len(seg_content) > effective_length)
    => \A i \in 1..Len(seg_chunks.value) :
          Len(seg_chunks.value[i]) <= effective_length

\* a thread of a hook, a chunk with the first transition in front, a chunk
\* cut at a break point that got no transition for want of room, and a chunk
\* of exactly effective_length characters
C15_Witness ==
    /\ seg_chunks # NotCalled
    /\ Len(seg_content) > effective_length
    /\ Len(seg_chunks.value) >= 3
    /\ seg_chunks.value[1][1] = Spool
    /\ \E i \in 2..Len(seg_chunks.value) :
          HasAt(seg_chunks.value[i], 1, transition_phrases[1])
    /\ \E i \in 2..Len(seg_chunks.value) :
          Len(seg_chunks.value[i]) = effective_length

(***************************************************************************)
(* Properties of the Engagement Scorer                                     *)
(***************************************************************************)

HasFactor(report, name, points) ==
    \E k \in 1..Len(report.factors) :
        report.factors[k] = [factor |-> name, points |-> points]

\* C17: the report of analyze_engagement_potential holds the factor
\* "Optimal thread length" (+6) iff the thread has between 3 and 8 tweets;
\* with fewer than 3 or more than 8 tweets the factor is absent.
C17_OptimalLengthFactor ==
    engagement.raised = "none"
    => (HasFactor(engagement.value, "Optimal thread length", 6)
        <=> (3 <= Len(thread) /\ Len(thread) <= 8))

\* a thread of 8 tweets was scored and received the factor
C17_Witness ==
    /\ engagement.raised = "none"
    /\ Len(thread) = 8
    /\ HasFactor(engagement.value, "Optimal thread length", 6)

\* C18: for every non-empty thread the score reported by
\* analyze_engagement_potential is at most the reported max_score (60), and
\* the percentage is score / 60 * 100.
C18_ScoreWithinMaximum ==
    (engagement.raised = "none" /\ thread # <<>>)
    => /\ engagement.value.score <= engagement.value.max_score
       /\ engagement.value.percentage.numerator * 60
          = engagement.value.score * 100 * engagement.value.percentage.denominator

(***************************************************************************)
(* Properties of the Validator                                             *)
(***************************************************************************)

\* the tweet has no leading or trailing whitespace and no double space
CleanWhitespace(tweet) == Strip(tweet) = tweet /\ ~Contains(tweet, <<" ", " ">>)

\* the findings of a list that are about tweet i
FindingsOn(findings, i) == {k \in 1..Len(findings) : findings[k].tweet = i}

\* C19: validate_thread returns valid = true iff every tweet has between 240
\* and 280 characters, no leading or trailing whitespace and no double space;
\* a tweet of more than 280 characters with clean whitespace has exactly one
\* issue, the character-limit one, and no warning about its length.
C19_ValidIffAllTweetsClean ==
    validation.raised = "none"
    => /\ validation.value.valid
          <=> \A i \in 1..Len(thread) :
                  /\ 240 <= Len(thread[i])
                  /\ Len(thread[i]) <= 280
                  /\ CleanWhitespace(thread[i])
       /\ \A i \in 1..Len(thread) :
              (Len(thread[i]) > 280 /\ CleanWhitespace(thread[i]))
              => /\ Cardinality(FindingsOn(validation.value.issues, i)) = 1
                 /\ \A k \in FindingsOn(validation.value.issues, i) :
                        validation.value.issues[k].message = "exceeds character limit"
                 /\ \A k \in FindingsOn(validation.value.warnings, i) :
                        validation.value.warnings[k].message
                            \notin {"below target", "above target"}

\* a tweet of 240 characters and one of 290 were validated: the thread is not
\* valid and its only issue is the character limit of the 290-character tweet
C19_Witness ==
    /\ validation.raised = "none"
    /\ Len(thread) = 2
    /\ Len(thread[1]) = 240
    /\ Len(thread[2]) = 290
    /\ ~validation.value.valid
    /\ Len(validation.value.issues) = 1
    /\ validation.value.issues[1].tweet = 2

\* the warning "Tweet i is very similar to tweet i-1" is among the warnings
SimilarityWarned(i) ==
    \E k \in 1..Len(validation.value.warnings) :
        validation.value.warnings[k]
            = [tweet |-> i, message |-> "is very similar to tweet", value |-> i - 1]

\* a warning about the similarity of tweet i to a tweet other than i-1
WarnedAgainstOther(i) ==
    \E k \in 1..Len(validation.value.warnings) :
        /\ validation.value.warnings[k].tweet = i
        /\ validation.value.warnings[k].message = "is very similar to tweet"
        /\ validation.value.warnings[k].value # i - 1

\* the words of tweet i, lower-cased
WordsOf(i) == Range(SplitWhitespace(Lower(thread[i])))

\* the Jaccard index of the word sets of tweets i and i-1 is above 0.7
JaccardAbove(i) ==
    10 * Cardinality(WordsOf(i) \cap WordsOf(i - 1))
        > 7 * Cardinality(WordsOf(i) \cup WordsOf(i - 1))

\* 80% of the words of tweet i are words of tweet i-1, and 80% of the words
\* of tweet i-1 are words of tweet i
EightyPercentIdentical(i) ==
    /\ WordsOf(i) # {}
    /\ 5 * Cardinality(WordsOf(i) \cap WordsOf(i - 1)) = 4 * Cardinality(WordsOf(i))
    /\ 5 * Cardinality(WordsOf(i) \cap WordsOf(i - 1)) = 4 * Cardinality(WordsOf(i - 1))

\* C20 (as amended): validate_thread warns that tweet i is very similar to
\* tweet i-1 iff i >= 2 and the Jaccard index of the lower-cased word sets of
\* the two tweets is strictly greater than 0.7, and it never compares a tweet
\* with any other than the one before it. Two tweets of which each has 80% of
\* its words in common with the other have the Jaccard index 2/3 and get no
\* warning.
C20_SimilarityWarningAmended ==
    validation.raised = "none"
    => \A i \in 1..Len(thread) :
           /\ SimilarityWarned(i) <=> (i >= 2 /\ JaccardAbove(i))
           /\ ~WarnedAgainstOther(i)
           /\ (i >= 2 /\ EightyPercentIdentical(i)) => ~SimilarityWarned(i)

\* a thread was validated whose second tweet shares 8 of its 10 words with
\* the first, which has 10 words as well, and gets no warning
C20_Witness ==
    /\ validation.raised = "none"
    /\ Len(thread) >= 2
    /\ EightyPercentIdentical(2)
    /\ ~SimilarityWarned(2)

\* C20 (as stated): the warning for tweet i is emitted iff i >= 2 and the
\* Jaccard index with the tweet before it is above 0.7, never against another
\* tweet, and a pair of tweets in which 80% of the words are identical gets
\* the warning.
C20_SimilarityWarning ==
    validation.raised = "none"
    => \A i \in 1..Len(thread) :
           /\ SimilarityWarned(i) <=> (i >= 2 /\ JaccardAbove(i))
           /\ ~WarnedAgainstOther(i)
           /\ (i >= 2 /\ EightyPercentIdentical(i)) => SimilarityWarned(i)

\* C21: validate_thread and analyze_engagement_potential never raise: for
\* every list of tweets, the empty list included, each call returns a report.
C21_ReportsNeverRaise ==
    /\ engagement # NotCalled => engagement.raised = "none"
    /\ validation # NotCalled => validation.raised = "none"

\* the thread-opening marker: the spool or "THREAD:"
HasOpeningMarker(tweet) ==
    Contains(tweet, <<Spool>>) \/ Contains(tweet, <<"T","H","R","E","A","D",":">>)

\* one of the indicators _enhance_final_tweet looks for
HasCallToAction(tweet) == ContainsAny(Lower(tweet), cta_indicators)

\* C22: every non-empty thread returned by format_drone_content has the
\* thread-opening marker on its first tweet and a closing call to action on
\* its last tweet, whether it has one tweet or several and whatever the
\* lengths of its first and last chunks.
C22_MarkerAndCallToAction ==
    (formatted # NotCalled /\ formatted.raised = "none" /\ formatted.value # <<>>)
        => /\ HasOpeningMarker(formatted.value[1])
           /\ HasCallToAction(formatted.value[Len(formatted.value)])

(***************************************************************************)
(* Properties of the tweet numbering                                       *)
(***************************************************************************)

\* the numbers are 1, 2, ..., n in order
Contiguous(numbers) == \A i \in 1..Len(numbers) : numbers[i] = i

\* C23: in every thread process_ai_tweets, create_fallback_thread and the
\* thread path of the ideator (_parse_thread_response, then
\* _improve_thread_quality) produce, the tweets' ordinal numbers are exactly
\* 1, 2, ..., n in order, also when raw tweets are skipped or filtered out
\* and when the promotional tweet is appended.
C23_OrdinalsContiguous ==
    /\ processed # NotCalled =>
           Contiguous([i \in 1..Len(processed.value) |-> processed.value[i].tweet_number])
    /\ fallback_thread # NotCalled =>
           Contiguous([i \in 1..Len(fallback_thread.value) |->
                          fallback_thread.value[i].tweet_number])
    /\ ideator_thread # NotCalled =>
           Contiguous([i \in 1..Len(ideator_thread.value.tweets) |->
                          ideator_thread.value.tweets[i].number])

(***************************************************************************)
(* Properties of the break point                                           *)
(***************************************************************************)

ParagraphsInRange == InTargetRange(para_breaks(Window(break_content)))

SentencesInRange == InTargetRange(sentence_ends(Window(break_content)))

ClausesInRange == InTargetRange(clause_breaks(Window(break_content)))

\* pos is in breaks and no position of breaks is larger
LargestOf(pos, breaks) == pos \in breaks /\ \A other \in breaks : other <= pos

FittingSentenceEnds ==
    {pos \in sentence_ends(Window(break_content)) : pos <= effective_length}

\* C25: when no candidate break lies in the target range,
\* _find_best_break_point returns the largest sentence end that is at most
\* effective_length, and 0 only when there is none.
C25_FallbackIsLastSentenceEnd ==
    (/\ break_point.raised = "none"
     /\ ParagraphsInRange = {} /\ SentencesInRange = {} /\ ClausesInRange = {})
        => IF FittingSentenceEnds = {} THEN break_point.value = 0
           ELSE LargestOf(break_point.value, FittingSentenceEnds)

(***************************************************************************)
(* Properties of the loop of split_content                                 *)
(***************************************************************************)

\* the source text a chunk carries: the chunk without the thread marker, the
\* pointer, the transition phrase and the whitespace around them, as
\* _remove_processed_content looks for it
SourceText(chunk) ==
    DropTransition(Strip(DropPointer(DropThreadMarker(Strip(chunk)))))

\* s without its whitespace
WithoutWhitespace(s) == SelectSeq(s, LAMBDA c : ~IsSpace(c))

\* C26: the loop of split_content removes from the remaining content
\* exactly the source text of the chunk it emits, the hook included: when
\* max_tweets does not cut the thread short, the source texts of the chunks
\* make up the content, whitespace aside, nothing dropped and nothing twice.
C26_ChunksMakeUpTheContent ==
    (/\ seg_chunks # NotCalled
     /\ Len(seg_content) > effective_length
     /\ Len(seg_chunks.value) < seg_max_tweets)
    => WithoutWhitespace(Concat([i \in 1..Len(seg_chunks.value) |->
                                    SourceText(seg_chunks.value[i])]))
          = WithoutWhitespace(seg_content)

(***************************************************************************)
(* The Length Optimizer and the whitespace tests of the Validator          *)
(***************************************************************************)

\* C28: for a text without whitespace at its ends and without a double
\* space, the result of optimize_tweet_length has none either, so that the
\* Validator raises neither of its whitespace issues on it, also when a
\* hashtag is taken out of the middle of the text.
C28_OptimizedTextIsCleanOfWhitespace ==
    (calls >= 1 /\ CleanWhitespace(text)) => CleanWhitespace(result)

(***************************************************************************)
(* Properties of the thread posting                                        *)
(***************************************************************************)

\* the tweets created so far are the first tweets of the thread in their
\* order, the first a reply to nothing, each later one a reply to the one
\* created just before it
PostedInOrderAsReplies ==
    /\ Len(timeline) <= Len(thread_tweets)
    /\ \A k \in 1..Len(timeline) :
          /\ timeline[k].text = TweetText(thread_tweets[k])
          /\ timeline[k].in_reply_to_tweet_id =
                 IF k = 1 THEN None ELSE timeline[k - 1].id

\* once a tweet has failed or the call has returned, no tweet is created
NothingPostedAfterFailure ==
    post_pc \in {"after loop", "returned"} => timeline' = timeline

\* the call was made on an initialised client and not as a dry run
RealPost == client /\ ~dry_run

\* C29 as amended: post_thread on an initialised client, not as a dry run,
\* creates the tweets in thread order, the first as a reply to nothing and
\* each later one as a reply to the tweet created just before it; after the
\* first tweet that fails none is created; and it returns true iff the
\* thread has a tweet and every tweet of it was created.
C29_PostsInOrderAmended ==
    /\ [](RealPost => PostedInOrderAsReplies)
    /\ [][RealPost => NothingPostedAfterFailure]_vars
    /\ []((RealPost /\ post_pc = "returned")
             => (post_result <=> (thread_tweets # <<>>
                                    /\ Len(timeline) = Len(thread_tweets))))

\* the call returned false after the second tweet of a thread of three
\* failed
C29_Witness ==
    /\ RealPost
    /\ post_pc = "returned"
    /\ ~post_result
    /\ Len(thread_tweets) = 3
    /\ Len(timeline) = 1
    /\ post_error # "none"

\* C29: post_thread on an initialised client, not as a dry run, creates the
\* tweets in thread order, the first as a reply to nothing and each later
\* one as a reply to the tweet created just before it; after the first tweet
\* that fails none is created; and it returns true iff every tweet of the
\* thread was created.
C29_PostsInOrder ==
    /\ [](RealPost => PostedInOrderAsReplies)
    /\ [][RealPost => NothingPostedAfterFailure]_vars
    /\ []((RealPost /\ post_pc = "returned")
             => (post_result <=> Len(timeline) = Len(thread_tweets)))

(***************************************************************************)
(* Properties of the Post Scheduler                                        *)
(***************************************************************************)

\* C30: however the calls of start_scheduler, stop_scheduler and
\* schedule_daily_posts interleave with the steps of the loop threads, at
\* most one _run_scheduler thread is alive at any time.
C30_AtMostOneLoopAlive == Cardinality({t \in LoopThreads : Alive(t)}) <= 1

====
